---- MODULE Spec2Model ----
(***************************************************************************)
(* Ledger core of the digital-wallet backend: the relational store with    *)
(* its transaction primitive, the Money-Movement engine (PaymentService),  *)
(* the Cashback engine (CashbackService), the Bill-Split engine             *)
(* (BillSplitService) and the Budget aggregator (BudgetService).  Money    *)
(* amounts are integers in kurus (1/100 TRY), months are YYYYMM.           *)
(* One action is one service call run to completion; SpecConcurrent runs   *)
(* two handlers step by step between their await points, and SpecStartup   *)
(* is the wiring of the application at startup.                            *)
(***************************************************************************)
EXTENDS Integers, Sequences, FiniteSets, TLC

VARIABLES
    wallets,        \* table wallets: user_id -> balance
    transactions,   \* table transactions: sequence of rows, in insertion order
    bill_splits,    \* table bill_splits: sequence of rows, index = split_id
    cashback_rules, \* table cashback_rules: set of rows (never written by the engines)
    budgets,        \* table budgets: set of rows, key (user_id, month, category)
    created_at,     \* column transactions.created_at: the month of each row, by position
    clock,          \* the month new Date() gives
    faults,         \* number of storage faults injected so far
    calls,          \* number of calls so far that changed the store
    result,         \* the value returned by the last service call, with its arguments
    halted,         \* the last call left the store untouched: the run is not continued
    inflight,       \* the requests being handled: per handler, where it is suspended
    services,       \* Container.services: the names registered
    initialized,    \* Container.initialized
    phase,          \* how far App.start() has come
    mounted         \* the paths App.setupRoutes has mounted, in order

vars == <<wallets, transactions, bill_splits, cashback_rules, budgets, created_at, clock,
          faults, calls, result, halted, inflight, services, initialized, phase, mounted>>

\* the dependency container and the application object
wiring == <<services, initialized, phase, mounted>>

(***************************************************************************)
(* Bounds of the exploration.                                              *)
(***************************************************************************)
MaxCalls == 3       \* calls of a run that change the store
MaxFaults == 1      \* storage statements that fail during a run

(***************************************************************************)
(* Seed data of database/schema.sql.                                       *)
(***************************************************************************)
Users == {"U1", "U2", "U3"}

Merchants == [M1 |-> "cafe", M2 |-> "market"]

NoMerchant == ""

SeedWallets == [U1 |-> 25000, U2 |-> 9000, U3 |-> 3000]

NoMeta == [rule_id |-> "", original_tx_id |-> 0, related_tx |-> 0, peer |-> ""]

Row(tx_id, user_id, merchant_id, amount, type, meta) ==
    [tx_id |-> tx_id, user_id |-> user_id, merchant_id |-> merchant_id,
     amount |-> amount, type |-> type, status |-> "ok", meta |-> meta]

\* the payment a cashback answers is not recorded
CbMetaNoOrigin(rule_id, original_tx_id) == [NoMeta EXCEPT !.rule_id = rule_id]

CbMeta(rule_id, original_tx_id) ==
    [NoMeta EXCEPT !.rule_id = rule_id, !.original_tx_id = original_tx_id]

\* tx ids 1..17 stand for TX_PAY_001..006, TX_CB_001..002, TX_PAY_007,
\* TX_CB_003..004, TX_PAY_008, TX_PAY_009, TX_CB_005..006, TX_TOP_001..002,
\* in the order of the INSERT statement: a row's tx_id is its position.
SeedTransactions == <<
    Row(1, "U1", "M1", 1550, "payment", NoMeta),
    Row(2, "U1", "M1", 2200, "payment", NoMeta),
    Row(3, "U1", "M2", 4575, "payment", NoMeta),
    Row(4, "U1", "M1", 1850, "payment", NoMeta),
    Row(5, "U1", "M2", 3200, "payment", NoMeta),
    Row(6, "U1", "M1", 1275, "payment", NoMeta),
    Row(7, "U1", "M1", 93, "cashback", CbMeta("CB1", 4)),
    Row(8, "U1", "M1", 64, "cashback", CbMeta("CB1", 6)),
    Row(9, "U2", "M1", 2550, "payment", NoMeta),
    Row(10, "U2", NoMerchant, 2000, "cashback", CbMeta("CB2", 9)),
    Row(11, "U2", "M1", 128, "cashback", CbMeta("CB1", 9)),
    Row(12, "U2", "M2", 1800, "payment", NoMeta),
    Row(13, "U3", "M1", 1275, "payment", NoMeta),
    Row(14, "U3", NoMerchant, 2000, "cashback", CbMeta("CB2", 13)),
    Row(15, "U3", "M1", 64, "cashback", CbMeta("CB1", 13)),
    Row(16, "U2", NoMerchant, 10000, "topup", NoMeta),
    Row(17, "U3", NoMerchant, 5000, "topup", NoMeta) >>

SeedLen == Len(SeedTransactions)

NoDate == 0

\* rate in 1/10000, amounts in kurus, dates as YYYYMMDD; cap 0 and NoDate stand
\* for NULL; rowid is the row's position in the table (the order of a scan)
SeedCashbackRules == {
    [rowid |-> 1, rule_id |-> "CB1", rule_type |-> "percent", category |-> "cafe", rate |-> 500,
     flat_amount |-> 0, cap |-> 2000, first_time_only |-> FALSE,
     starts_at |-> 20251001, ends_at |-> 20251231, active |-> TRUE],
    [rowid |-> 2, rule_id |-> "CB2", rule_type |-> "flat", category |-> "any", rate |-> 0,
     flat_amount |-> 2000, cap |-> 2000, first_time_only |-> TRUE,
     starts_at |-> 20251001, ends_at |-> 20251031, active |-> TRUE] }

\* months of created_at of the rows of SeedTransactions: TX_PAY_001..003 are
\* of September 2025, the others of October 2025
SeedCreatedAt == [i \in 1..SeedLen |-> IF i <= 3 THEN 202509 ELSE 202510]

SeedClock == 202510

Budget(user_id, month, category, limit_amount) ==
    [user_id |-> user_id, month |-> month, category |-> category,
     limit_amount |-> limit_amount]

\* "ulasim", "eglence" stand for the categories written with Turkish letters
SeedBudgets == {
    Budget("U1", 202510, "cafe", 20000),
    Budget("U1", 202510, "market", 30000),
    Budget("U1", 202510, "ulasim", 15000),
    Budget("U1", 202511, "cafe", 18000),
    Budget("U1", 202511, "market", 32000),
    Budget("U1", 202511, "eglence", 10000),
    Budget("U2", 202510, "cafe", 10000),
    Budget("U2", 202510, "market", 20000),
    Budget("U3", 202510, "cafe", 8000),
    Budget("U3", 202510, "ulasim", 12000) }

(***************************************************************************)
(* Inputs of the service calls.                                            *)
(***************************************************************************)
UserIds == Users \cup {"U9"}            \* U9: no such user, no wallet

MerchantInputs == {"M1", "M2", "M9"}    \* M9: no such merchant

Amounts == {-5000, 0, 5000, 30000}

MissingTxId == 99                       \* no such transaction row

SeedSplitTxId == 3                      \* TX_PAY_003: U1 paid 45.75 at M2

\* QR payloads: parses = the string is JSON; "" = field absent; age = hours
\* since the payload's ts (NoTs: no ts field)
NoTs == -1

Num(v) == [k |-> "number", v |-> v]

Str(v) == [k |-> "string", v |-> v]     \* a string that parseFloat reads as v

Text == [k |-> "text", v |-> 0]         \* a string that parseFloat cannot read

Absent == [k |-> "absent", v |-> 0]

Qr(parses, qr_id, merchant_id, amount, age) ==
    [parses |-> parses, qr_id |-> qr_id, merchant_id |-> merchant_id,
     amount |-> amount, age |-> age]

QrPayloads == {
    Qr(TRUE, "QR-M1-001", "M1", Num(5000), 1),
    Qr(TRUE, "QR-M2-001", "M2", Str(5000), NoTs),
    Qr(TRUE, "QR-M1-001", "M1", Num(30000), 24),
    Qr(FALSE, "QR-M1-001", "M1", Num(5000), 1),
    Qr(TRUE, "", "M1", Num(5000), 1),
    Qr(TRUE, "QR-M1-001", "", Num(5000), 1),
    Qr(TRUE, "QR-M1-001", "M1", Absent, 1),
    Qr(TRUE, "QR-M1-001", "M1", Num(0), 1),
    Qr(TRUE, "QR-M1-001", "M1", Str(0), 1),
    Qr(TRUE, "QR-M1-001", "M1", Text, 1),
    Qr(TRUE, "QR-M1-001", "M1", Num(5000), 25),
    Qr(TRUE, "QR-M9-001", "M9", Num(5000), 1) }

EqualDebtorLists == { << >>, <<"U1">>, <<"U2">>, <<"U2", "U3">>, <<"U2", "U9">> }

W(userId, weight) == [userId |-> userId, weight |-> weight]

WeightedDebtorLists == {
    << >>, <<W("U1", 1)>>, <<W("U3", 1)>>, <<W("U2", 0)>>, <<W("U2", 1), W("U9", 1)>> }

(***************************************************************************)
(* The store: statements, Database.run and Database.transaction.           *)
(***************************************************************************)
DB == [wallets |-> wallets, transactions |-> transactions, bill_splits |-> bill_splits,
       budgets |-> budgets]

NoFault == [at |-> 0, keeps |-> FALSE]

\* the faults a call that issues n statements (and, when tx, a COMMIT) may meet
FaultsFor(n, tx) ==
    {NoFault} \cup
    IF faults < MaxFaults
    THEN {[at |-> i, keeps |-> FALSE] : i \in 1..n} \cup
         (IF tx THEN {[at |-> n + 1, keeps |-> b] : b \in BOOLEAN} ELSE {})
    ELSE {}

TxIds(db) == {db.transactions[i].tx_id : i \in 1..Len(db.transactions)}

ValidTypesSchema == {"payment", "cashback", "topup", "transfer_out", "transfer_in", "bill_split"}

ValidStatusesSchema == {"pending", "ok", "failed", "cancelled"}

UpdateBalance(user_id, delta) == [k |-> "update_balance", user_id |-> user_id, delta |-> delta]

\* the debit adds the amount
DebitWalletAdds(user_id, amount) == UpdateBalance(user_id, amount)

\* UPDATE wallets SET balance = balance - ? WHERE user_id = ?
DebitWallet(user_id, amount) == UpdateBalance(user_id, -amount)

\* the receiver's UPDATE changes no balance
CreditWalletLost(user_id, amount) == UpdateBalance(user_id, 0)

\* UPDATE wallets SET balance = balance + ? WHERE user_id = ?
CreditWallet(user_id, amount) == UpdateBalance(user_id, amount)

InsertTransaction(tx) == [k |-> "insert_transaction", tx |-> tx]

InsertBillSplit(split) == [k |-> "insert_bill_split", split |-> split]

\* creating a budget takes its limit from the wallet
InsertBudgetRowCharged(budget) == UpdateBalance(budget.user_id, -budget.limit_amount)

InsertBudgetRow(budget) == [k |-> "insert_budget", budget |-> budget]

UpdateBudgetRow(budget) == [k |-> "update_budget", budget |-> budget]

DeleteBudgetRow(budget) == [k |-> "delete_budget", budget |-> budget]

\* the status UPDATE never writes settled_at
UpdateSplitStatusNoStamp(split_id, status, settled) ==
    [k |-> "update_split_status", split_id |-> split_id, status |-> status, settled |-> FALSE]

UpdateSplitStatus(split_id, status, settled) ==
    [k |-> "update_split_status", split_id |-> split_id, status |-> status, settled |-> settled]

\* one statement against the store: [ok, db]; a constraint violation leaves db as it was
ExecStmt(db, s) ==
    CASE s.k = "update_balance" ->
           [ok |-> TRUE,
            db |-> IF s.user_id \in DOMAIN db.wallets
                   THEN [db EXCEPT !.wallets[s.user_id] = @ + s.delta]
                   ELSE db]
      [] s.k = "insert_transaction" ->
           IF /\ s.tx.tx_id \notin TxIds(db)
              /\ s.tx.user_id \in Users
              /\ s.tx.merchant_id \in DOMAIN Merchants \cup {NoMerchant}
              /\ s.tx.type \in ValidTypesSchema
              /\ s.tx.status \in ValidStatusesSchema
           THEN [ok |-> TRUE, db |-> [db EXCEPT !.transactions = Append(@, s.tx)]]
           ELSE [ok |-> FALSE, db |-> db]
      [] s.k = "insert_bill_split" ->
           IF /\ s.split.tx_id \in TxIds(db)
              /\ s.split.payer_user_id \in Users
              /\ s.split.debtor_user_id \in Users
           THEN [ok |-> TRUE,
                 db |-> [db EXCEPT !.bill_splits =
                            Append(@, [s.split EXCEPT !.split_id = Len(db.bill_splits) + 1])]]
           ELSE [ok |-> FALSE, db |-> db]
      [] s.k = "insert_budget" ->
           IF /\ s.budget.user_id \in Users
              /\ ~\E b \in db.budgets : /\ b.user_id = s.budget.user_id
                                        /\ b.month = s.budget.month
                                        /\ b.category = s.budget.category
           THEN [ok |-> TRUE, db |-> [db EXCEPT !.budgets = @ \cup {s.budget}]]
           ELSE [ok |-> FALSE, db |-> db]
      [] s.k = "update_budget" ->
           [ok |-> TRUE,
            db |-> [db EXCEPT !.budgets =
                       {IF /\ b.user_id = s.budget.user_id
                           /\ b.month = s.budget.month
                           /\ b.category = s.budget.category
                        THEN [b EXCEPT !.limit_amount = s.budget.limit_amount]
                        ELSE b : b \in @}]]
      [] s.k = "delete_budget" ->
           [ok |-> TRUE,
            db |-> [db EXCEPT !.budgets =
                       {b \in @ : ~(/\ b.user_id = s.budget.user_id
                                    /\ b.month = s.budget.month
                                    /\ b.category = s.budget.category)}]]
      [] s.k = "update_split_status" ->
           [ok |-> TRUE,
            db |-> IF s.split_id \in 1..Len(db.bill_splits)
                   THEN [db EXCEPT !.bill_splits[s.split_id] =
                            [@ EXCEPT !.status = s.status,
                                      !.settled = IF s.settled THEN TRUE ELSE @]]
                   ELSE db]

\* Database.run of the n-th statement of a call: rejects when the fault hits it
DatabaseRun(db, s, n, fault) ==
    IF fault.at = n
    THEN [ok |-> FALSE, db |-> db, faulted |-> TRUE]
    ELSE LET r == ExecStmt(db, s) IN [ok |-> r.ok, db |-> r.db, faulted |-> FALSE]

\* ROLLBACK after a failed statement: the store as it was at BEGIN
Rollback(db0, db) == db0

\* COMMIT rejected: the promise is rejected and no ROLLBACK is issued; the
\* engine either dropped the bundle itself or left it applied on the connection
CommitRejected(db0, db, keeps) == IF keeps THEN db ELSE db0

RECURSIVE RunStatements(_, _, _, _, _)
RunStatements(db0, db, statements, i, fault) ==
    IF i > Len(statements)
    THEN IF fault.at = Len(statements) + 1
         THEN [ok |-> FALSE, db |-> CommitRejected(db0, db, fault.keeps), faulted |-> TRUE]
         ELSE [ok |-> TRUE, db |-> db, faulted |-> FALSE]
    ELSE LET r == DatabaseRun(db, statements[i], i, fault)
         IN  IF r.ok
             THEN RunStatements(db0, r.db, statements, i + 1, fault)
             ELSE [ok |-> FALSE, db |-> Rollback(db0, r.db), faulted |-> r.faulted]

DatabaseTransaction(db, statements, fault) == RunStatements(db, db, statements, 1, fault)

(***************************************************************************)
(* Domain objects.                                                         *)
(***************************************************************************)
ValidTypes == ValidTypesSchema \cup {"split_settlement", "refund"}

\* Transaction.validate: the constructor throws unless this holds
TransactionValidate(tx) ==
    /\ tx.user_id # ""
    /\ tx.amount > 0
    /\ tx.type \in ValidTypes
    /\ tx.status \in ValidStatusesSchema

increasesBalance(tx) == tx.type \in {"cashback", "topup", "transfer_in"}

decreasesBalance(tx) == tx.type \in {"payment", "transfer_out", "bill_split"}

\* the comparison ignores the amount
hasSufficientFundsAnyAmount(balance, amount) == balance >= 0

\* Wallet.hasSufficientFunds
hasSufficientFunds(balance, amount) == balance >= amount

\* the meta of a transfer record carries no back-reference
TransferMetaNoRef(peer, related_tx) == [NoMeta EXCEPT !.peer = peer]

\* the meta of a transfer record: { to_user | from_user, related_tx }
TransferMeta(peer, related_tx) == [NoMeta EXCEPT !.peer = peer, !.related_tx = related_tx]

\* uuid-based ids: the k-th id generated by a call, which no row of the store
\* carries (rows are only appended, and a row's tx_id is its position)
FreshId(db, k) == Len(db.transactions) + k

Outcome(db, res, faulted) == [db |-> db, res |-> res, faulted |-> faulted]

Res(op, in, success, message, data) ==
    [op |-> op, in |-> in, success |-> success, message |-> message, data |-> data]

NoData == [none |-> TRUE]

(***************************************************************************)
(* Money-Movement engine: PaymentService.                                  *)
(***************************************************************************)
transferMoney(db, fromUserId, toUserId, amount, fault) ==
    LET in == [fromUserId |-> fromUserId, toUserId |-> toUserId, amount |-> amount]
        Fail(msg) == Outcome(db, Res("transferMoney", in, FALSE, msg, NoData), FALSE)
        outTxId == FreshId(db, 1)
        inTxId == FreshId(db, 2)
        outTransaction == Row(outTxId, fromUserId, NoMerchant, amount, "transfer_out",
                              TransferMeta(toUserId, inTxId))
        inTransaction == Row(inTxId, toUserId, NoMerchant, amount, "transfer_in",
                             TransferMeta(fromUserId, outTxId))
        operations == << DebitWallet(fromUserId, amount),
                         CreditWallet(toUserId, amount),
                         InsertTransaction(outTransaction),
                         InsertTransaction(inTransaction) >>
        t == DatabaseTransaction(db, operations, fault)
    IN  IF fromUserId = "" \/ toUserId = "" THEN Fail("ids required")
        ELSE IF fromUserId = toUserId THEN Fail("self transfer")
        ELSE IF amount <= 0 THEN Fail("invalid amount")
        ELSE IF fromUserId \notin DOMAIN db.wallets THEN Fail("sender wallet not found")
        ELSE IF toUserId \notin DOMAIN db.wallets THEN Fail("receiver wallet not found")
        ELSE IF ~hasSufficientFunds(db.wallets[fromUserId], amount) THEN Fail("insufficient funds")
        ELSE IF ~TransactionValidate(outTransaction) \/ ~TransactionValidate(inTransaction)
             THEN Fail("transfer error")
        ELSE IF t.ok
             THEN Outcome(t.db,
                          Res("transferMoney", in, TRUE, "transfer ok",
                              [outTransactionId |-> outTxId, inTransactionId |-> inTxId,
                               amount |-> amount]),
                          FALSE)
             ELSE Outcome(t.db, Res("transferMoney", in, FALSE, "transfer error", NoData),
                          t.faulted)

processPayment(db, userId, merchantId, amount, fault) ==
    LET in == [userId |-> userId, merchantId |-> merchantId, amount |-> amount]
        Fail(msg) == Outcome(db, Res("processPayment", in, FALSE, msg, NoData), FALSE)
        txId == FreshId(db, 1)
        transaction == Row(txId, userId, merchantId, amount, "payment", NoMeta)
        operations == << DebitWallet(userId, amount), InsertTransaction(transaction) >>
        t == DatabaseTransaction(db, operations, fault)
    IN  IF userId = "" \/ merchantId = "" THEN Fail("ids required")
        ELSE IF amount <= 0 THEN Fail("invalid amount")
        ELSE IF userId \notin DOMAIN db.wallets THEN Fail("wallet not found")
        ELSE IF ~hasSufficientFunds(db.wallets[userId], amount) THEN Fail("insufficient funds")
        ELSE IF ~TransactionValidate(transaction) THEN Fail("payment error")
        ELSE IF t.ok
             THEN Outcome(t.db,
                          Res("processPayment", in, TRUE, "payment ok",
                              [transactionId |-> txId, amount |-> amount,
                               merchantId |-> merchantId,
                               newBalance |-> db.wallets[userId] - amount]),
                          FALSE)
             ELSE Outcome(t.db, Res("processPayment", in, FALSE, "payment error", NoData),
                          t.faulted)

topUpWallet(db, userId, amount, fault) ==
    LET in == [userId |-> userId, amount |-> amount]
        Fail(msg) == Outcome(db, Res("topUpWallet", in, FALSE, msg, NoData), FALSE)
        txId == FreshId(db, 1)
        transaction == Row(txId, userId, NoMerchant, amount, "topup", NoMeta)
        operations == << CreditWallet(userId, amount), InsertTransaction(transaction) >>
        t == DatabaseTransaction(db, operations, fault)
    IN  IF amount <= 0 THEN Fail("invalid amount")
        ELSE IF userId \notin DOMAIN db.wallets THEN Fail("wallet not found")
        ELSE IF ~TransactionValidate(transaction) THEN Fail("topup error")
        ELSE IF t.ok
             THEN Outcome(t.db,
                          Res("topUpWallet", in, TRUE, "topup ok",
                              [transactionId |-> txId, amount |-> amount,
                               newBalance |-> db.wallets[userId] + amount]),
                          FALSE)
             ELSE Outcome(t.db, Res("topUpWallet", in, FALSE, "topup error", NoData),
                          t.faulted)

\* parseFloat of the payload's amount field
parseFloat(a) ==
    CASE a.k = "number" -> [nan |-> FALSE, v |-> a.v]
      [] a.k = "string" -> [nan |-> FALSE, v |-> a.v]
      [] OTHER -> [nan |-> TRUE, v |-> 0]

\* JavaScript truthiness of the payload's amount field
Truthy(a) == a.k \in {"string", "text"} \/ (a.k = "number" /\ a.v # 0)

QrExpiryHours == 24

\* a payload never expires
isExpiredNever(age) == FALSE

\* if (qrInfo.ts) { ... if (hoursDiff > 24) ... }
isExpired(age) == age # NoTs /\ age > QrExpiryHours

\* now: the clock the call reads; the payload's ts is age hours before it
processQRPayment(db, userId, qrData, now, fault) ==
    LET in == [userId |-> userId, qrData |-> qrData, now |-> now]
        Fail(msg) == Outcome(db, Res("processQRPayment", in, FALSE, msg, NoData), FALSE)
        amount == parseFloat(qrData.amount)
        p == processPayment(db, userId, qrData.merchant_id, amount.v, fault)
    IN  IF ~qrData.parses THEN Fail("invalid QR format")
        ELSE IF qrData.qr_id = "" \/ qrData.merchant_id = "" \/ ~Truthy(qrData.amount)
             THEN Fail("QR data missing")
        ELSE IF amount.nan \/ amount.v <= 0 THEN Fail("invalid amount")
        ELSE IF isExpired(qrData.age) THEN Fail("QR expired")
        ELSE IF p.res.success
             THEN Outcome(p.db,
                          Res("processQRPayment", in, TRUE, "QR payment ok",
                              [transactionId |-> p.res.data.transactionId,
                               amount |-> p.res.data.amount,
                               newBalance |-> p.res.data.newBalance,
                               qrId |-> qrData.qr_id,
                               merchantId |-> qrData.merchant_id]),
                          p.faulted)
             ELSE Outcome(p.db,
                          Res("processQRPayment", in, FALSE, p.res.message, NoData),
                          p.faulted)

(***************************************************************************)
(* Cashback engine: CashbackService.                                       *)
(***************************************************************************)
\* rows of a table in scan order
RECURSIVE ByRowid(_)
ByRowid(rows) ==
    IF rows = {} THEN << >>
    ELSE LET first == CHOOSE r \in rows : \A q \in rows : r.rowid <= q.rowid
         IN  <<first>> \o ByRowid(rows \ {first})

\* the count looks for the rule's id among the payment rows
CountCashbackOfPayments(db, userId, rule_id) ==
    Cardinality({i \in 1..Len(db.transactions) :
                    /\ db.transactions[i].user_id = userId
                    /\ db.transactions[i].type = "payment"
                    /\ db.transactions[i].meta.rule_id = rule_id})

\* SELECT COUNT(*) FROM transactions WHERE user_id = ? AND type = 'cashback'
\*   AND json_extract(meta, '$.rule_id') = ?
CountCashback(db, userId, rule_id) ==
    Cardinality({i \in 1..Len(db.transactions) :
                    /\ db.transactions[i].user_id = userId
                    /\ db.transactions[i].type = "cashback"
                    /\ db.transactions[i].meta.rule_id = rule_id})

\* the window has no end
RuleInForceOpenEnded(rule, category, now) ==
    /\ rule.active
    /\ rule.category = category \/ rule.category = "any"
    /\ rule.starts_at = NoDate \/ rule.starts_at <= now

\* the WHERE clause of the rule query
RuleInForce(rule, category, now) ==
    /\ rule.active
    /\ rule.category = category \/ rule.category = "any"
    /\ rule.starts_at = NoDate \/ rule.starts_at <= now
    /\ rule.ends_at = NoDate \/ rule.ends_at >= now

getApplicableCashbackRules(db, rules, userId, category, now) ==
    SelectSeq(ByRowid({r \in rules : RuleInForce(r, category, now)}),
              LAMBDA rule : rule.first_time_only => CountCashback(db, userId, rule.rule_id) = 0)

\* the amount is truncated to whole kurus
RoundKurusDown(num, den) == num \div den

\* Math.round(x * 100) / 100 of the amount num/den kurus, den > 0
RoundKurus(num, den) ==
    IF num >= 0 THEN (2 * num + den) \div (2 * den)
    ELSE -((-2 * num + den - 1) \div (2 * den))

RateScale == 10000

\* the cap is not looked at
calculateCashbackAmountUncapped(rule, amount) ==
    IF rule.rule_type = "percent" THEN RoundKurus(amount * rule.rate, RateScale)
    ELSE IF rule.rule_type = "flat" THEN rule.flat_amount
    ELSE 0

calculateCashbackAmount(rule, amount) ==
    IF rule.rule_type = "percent"
    THEN IF rule.cap # 0 /\ amount * rule.rate > rule.cap * RateScale
         THEN rule.cap
         ELSE RoundKurus(amount * rule.rate, RateScale)
    ELSE IF rule.rule_type = "flat" THEN rule.flat_amount
    ELSE 0

\* the loop over the applicable rules: each applied rule issues two statements
\* outside any transaction, the INSERT of the cashback row and the wallet UPDATE
RECURSIVE ApplyRules(_, _, _, _, _, _, _, _, _, _)
ApplyRules(db, rules, i, n, userId, merchantId, amount, paymentTxId, fault, acc) ==
    IF i > Len(rules)
    THEN [ok |-> TRUE, db |-> db, faulted |-> FALSE, applied |-> acc]
    ELSE LET rule == rules[i]
             cashbackAmount == calculateCashbackAmount(rule, amount)
             cashbackTx == Row(FreshId(db, 1), userId, merchantId, cashbackAmount, "cashback",
                               CbMeta(rule.rule_id, paymentTxId))
             ins == DatabaseRun(db, InsertTransaction(cashbackTx), n + 1, fault)
             upd == DatabaseRun(ins.db, CreditWallet(userId, cashbackAmount), n + 2, fault)
         IN  IF cashbackAmount > 0
             THEN IF ~TransactionValidate(cashbackTx)
                  THEN [ok |-> FALSE, db |-> db, faulted |-> FALSE, applied |-> acc]
                  ELSE IF ~ins.ok
                  THEN [ok |-> FALSE, db |-> ins.db, faulted |-> ins.faulted, applied |-> acc]
                  ELSE IF ~upd.ok
                  THEN [ok |-> FALSE, db |-> upd.db, faulted |-> upd.faulted, applied |-> acc]
                  ELSE ApplyRules(upd.db, rules, i + 1, n + 2, userId, merchantId, amount,
                                  paymentTxId, fault,
                                  Append(acc, [ruleId |-> rule.rule_id,
                                               amount |-> cashbackAmount]))
             ELSE ApplyRules(db, rules, i + 1, n, userId, merchantId, amount,
                             paymentTxId, fault, acc)

RECURSIVE SumAmounts(_)
SumAmounts(seq) == IF seq = << >> THEN 0 ELSE Head(seq).amount + SumAmounts(Tail(seq))

\* the returned value has no success field: success stands for applied
calculateAndApplyCashback(db, rules, userId, merchantId, amount, paymentTxId, now, fault) ==
    LET in == [userId |-> userId, merchantId |-> merchantId, amount |-> amount,
               paymentTxId |-> paymentTxId, now |-> now]
        Ret(d, applied, msg, list, faulted) ==
            Outcome(d, Res("calculateAndApplyCashback", in, applied, msg,
                           [cashbackAmount |-> SumAmounts(list), applied |-> applied,
                            appliedRules |-> list]),
                    faulted)
        applicable == getApplicableCashbackRules(db, rules, userId, Merchants[merchantId], now)
        a == ApplyRules(db, applicable, 1, 0, userId, merchantId, amount, paymentTxId,
                        fault, << >>)
    IN  IF merchantId \notin DOMAIN Merchants THEN Ret(db, FALSE, "", << >>, FALSE)
        ELSE IF applicable = << >> THEN Ret(db, FALSE, "no campaign", << >>, FALSE)
        ELSE IF ~a.ok THEN Ret(a.db, FALSE, "cashback error", << >>, a.faulted)
        ELSE Ret(a.db, SumAmounts(a.applied) > 0,
                 IF SumAmounts(a.applied) > 0 THEN "cashback ok" ELSE "cashback not applied",
                 a.applied, FALSE)

(***************************************************************************)
(* Bill-Split engine: BillSplitService, BillSplitRepository.               *)
(***************************************************************************)
ValidSplitStatuses == {"pending", "settled", "cancelled"}

BillSplit(tx_id, payer, debtor, total, share, weight) ==
    [split_id |-> 0, tx_id |-> tx_id, payer_user_id |-> payer, debtor_user_id |-> debtor,
     total_amount |-> total, share_amount |-> share, weight |-> weight,
     status |-> "pending", settled |-> FALSE]

\* the share is not looked at
BillSplitValidateAnyShare(split) ==
    /\ split.payer_user_id # ""
    /\ split.debtor_user_id # ""
    /\ split.payer_user_id # split.debtor_user_id
    /\ split.total_amount > 0
    /\ split.status \in ValidSplitStatuses
    /\ split.weight > 0

\* BillSplit.validate: the constructor throws unless this holds
BillSplitValidate(split) ==
    /\ split.payer_user_id # ""
    /\ split.debtor_user_id # ""
    /\ split.payer_user_id # split.debtor_user_id
    /\ split.total_amount > 0
    /\ split.share_amount > 0
    /\ split.share_amount <= split.total_amount
    /\ split.status \in ValidSplitStatuses
    /\ split.weight > 0

\* the status is compared with a word the store never holds
isSettledPaid(split) == split.status = "paid"

isSettled(split) == split.status = "settled"

isPending(split) == split.status = "pending"

\* TransactionRepository.findById: the row, or none
HasTx(db, txId) == txId \in TxIds(db)

TxById(db, txId) == db.transactions[CHOOSE i \in 1..Len(db.transactions) :
                                       db.transactions[i].tx_id = txId]

\* any user may split any transaction
isOwnerAnyone(tx, userId) == TRUE

\* the ownership check of a split request: originalTx.userId === payerUserId
isOwner(tx, userId) == tx.user_id = userId

\* BillSplitRepository.createMultiple: one INSERT per split, in one transaction
createMultiple(db, billSplits, fault) ==
    DatabaseTransaction(db, [i \in 1..Len(billSplits) |-> InsertBillSplit(billSplits[i])], fault)

SplitData(billSplits) ==
    [splits |-> [i \in 1..Len(billSplits) |->
                    [debtorUserId |-> billSplits[i].debtor_user_id,
                     shareAmount |-> billSplits[i].share_amount,
                     weight |-> billSplits[i].weight]]]

createEqualSplit(db, payerUserId, originalTxId, debtorUserIds, fault) ==
    LET in == [payerUserId |-> payerUserId, originalTxId |-> originalTxId,
               debtors |-> debtorUserIds]
        Fail(msg) == Outcome(db, Res("createEqualSplit", in, FALSE, msg, NoData), FALSE)
        filteredDebtors == SelectSeq(debtorUserIds, LAMBDA id : id # payerUserId)
        originalTx == TxById(db, originalTxId)
        totalUsers == Len(filteredDebtors) + 1
        shareAmount == RoundKurus(originalTx.amount, totalUsers)
        billSplits == [i \in 1..Len(filteredDebtors) |->
                          BillSplit(originalTxId, payerUserId, filteredDebtors[i],
                                    originalTx.amount, shareAmount, 1)]
        t == createMultiple(db, billSplits, fault)
    IN  IF payerUserId = "" \/ debtorUserIds = << >> THEN Fail("invalid parameters")
        ELSE IF filteredDebtors = << >> THEN Fail("no debtor")
        ELSE IF ~HasTx(db, originalTxId) THEN Fail("transaction not found")
        ELSE IF ~TransactionValidate(originalTx) THEN Fail("split error")
        ELSE IF ~isOwner(originalTx, payerUserId) THEN Fail("not owner")
        ELSE IF \E i \in 1..Len(filteredDebtors) : filteredDebtors[i] \notin Users
             THEN Fail("user not found")
        ELSE IF \E i \in 1..Len(billSplits) : ~BillSplitValidate(billSplits[i])
             THEN Fail("split error")
        ELSE IF t.ok
             THEN Outcome(t.db, Res("createEqualSplit", in, TRUE, "split ok",
                                    SplitData(billSplits)), FALSE)
             ELSE Outcome(t.db, Res("createEqualSplit", in, FALSE, "split error", NoData),
                          t.faulted)

\* every debtor counts once whatever its weight
SumWeightsCounted(seq) == Len(seq)

RECURSIVE SumWeights(_)
SumWeights(seq) == IF seq = << >> THEN 0 ELSE Head(seq).weight + SumWeights(Tail(seq))

createWeightedSplit(db, payerUserId, originalTxId, debtorWeights, fault) ==
    LET in == [payerUserId |-> payerUserId, originalTxId |-> originalTxId,
               debtors |-> debtorWeights]
        Fail(msg) == Outcome(db, Res("createWeightedSplit", in, FALSE, msg, NoData), FALSE)
        filteredDebtors == SelectSeq(debtorWeights, LAMBDA item : item.userId # payerUserId)
        originalTx == TxById(db, originalTxId)
        totalWeight == SumWeights(filteredDebtors)
        billSplits == [i \in 1..Len(filteredDebtors) |->
                          BillSplit(originalTxId, payerUserId, filteredDebtors[i].userId,
                                    originalTx.amount,
                                    RoundKurus(originalTx.amount * filteredDebtors[i].weight,
                                               totalWeight),
                                    filteredDebtors[i].weight)]
        t == createMultiple(db, billSplits, fault)
    IN  IF payerUserId = "" \/ debtorWeights = << >> THEN Fail("invalid parameters")
        ELSE IF filteredDebtors = << >> THEN Fail("no debtor")
        ELSE IF \E i \in 1..Len(filteredDebtors) : filteredDebtors[i].weight <= 0
             THEN Fail("invalid weight")
        ELSE IF ~HasTx(db, originalTxId) THEN Fail("transaction not found")
        ELSE IF ~TransactionValidate(originalTx) THEN Fail("split error")
        ELSE IF ~isOwner(originalTx, payerUserId) THEN Fail("not owner")
        ELSE IF \E i \in 1..Len(filteredDebtors) : filteredDebtors[i].userId \notin Users
             THEN Fail("user not found")
        ELSE IF \E i \in 1..Len(billSplits) : ~BillSplitValidate(billSplits[i])
             THEN Fail("split error")
        ELSE IF t.ok
             THEN Outcome(t.db, Res("createWeightedSplit", in, TRUE, "split ok",
                                    SplitData(billSplits)), FALSE)
             ELSE Outcome(t.db, Res("createWeightedSplit", in, FALSE, "split error", NoData),
                          t.faulted)

\* BillSplitService.transferMoney: the transfer bundle of a settlement; it
\* checks nothing and rethrows a storage failure
splitTransferMoney(db, fromUserId, toUserId, amount, fault) ==
    LET outTxId == FreshId(db, 1)
        inTxId == FreshId(db, 2)
        outTransaction == Row(outTxId, fromUserId, NoMerchant, amount, "bill_split",
                              TransferMeta(toUserId, inTxId))
        inTransaction == Row(inTxId, toUserId, NoMerchant, amount, "transfer_in",
                             TransferMeta(fromUserId, outTxId))
        operations == << DebitWallet(fromUserId, amount),
                         CreditWallet(toUserId, amount),
                         InsertTransaction(outTransaction),
                         InsertTransaction(inTransaction) >>
        t == DatabaseTransaction(db, operations, fault)
    IN  IF ~TransactionValidate(outTransaction) \/ ~TransactionValidate(inTransaction)
        THEN [ok |-> FALSE, db |-> db, faulted |-> FALSE, outTransactionId |-> outTxId]
        ELSE [ok |-> t.ok, db |-> t.db, faulted |-> t.faulted, outTransactionId |-> outTxId]

\* WalletRepository.hasSufficientFunds
repoHasSufficientFunds(db, userId, amount) ==
    userId \in DOMAIN db.wallets /\ hasSufficientFunds(db.wallets[userId], amount)

\* statement positions of a settlement: 1..4 the transfer bundle, 5 its COMMIT,
\* 6 the status UPDATE
SettleStatusStmt == 6

settleBillSplit(db, splitId, payingUserId, fault) ==
    LET in == [splitId |-> splitId, userId |-> payingUserId]
        Fail(msg) == Outcome(db, Res("settleBillSplit", in, FALSE, msg, NoData), FALSE)
        split == db.bill_splits[splitId]
        transferResult == splitTransferMoney(db, split.debtor_user_id, split.payer_user_id,
                                             split.share_amount, fault)
        upd == DatabaseRun(transferResult.db, UpdateSplitStatus(splitId, "settled", TRUE),
                           SettleStatusStmt, fault)
    IN  IF splitId \notin 1..Len(db.bill_splits) THEN Fail("split not found")
        ELSE IF ~BillSplitValidate(split) THEN Fail("settle error")
        ELSE IF split.debtor_user_id # payingUserId THEN Fail("not debtor")
        ELSE IF isSettled(split) THEN Fail("already settled")
        ELSE IF ~repoHasSufficientFunds(db, payingUserId, split.share_amount)
             THEN Fail("insufficient funds")
        ELSE IF ~transferResult.ok
             THEN Outcome(transferResult.db,
                          Res("settleBillSplit", in, FALSE, "settle error", NoData),
                          transferResult.faulted)
        ELSE IF ~upd.ok
             THEN Outcome(upd.db, Res("settleBillSplit", in, FALSE, "settle error", NoData),
                          upd.faulted)
        ELSE Outcome(upd.db,
                     Res("settleBillSplit", in, TRUE, "settle ok",
                         [splitId |-> splitId, amount |-> split.share_amount,
                          payerUserId |-> split.payer_user_id,
                          debtorUserId |-> split.debtor_user_id,
                          transferTransactionId |-> transferResult.outTransactionId]),
                     FALSE)

cancelBillSplit(db, splitId, userId, fault) ==
    LET in == [splitId |-> splitId, userId |-> userId]
        Fail(msg) == Outcome(db, Res("cancelBillSplit", in, FALSE, msg, NoData), FALSE)
        split == db.bill_splits[splitId]
        upd == DatabaseRun(db, UpdateSplitStatus(splitId, "cancelled", FALSE), 1, fault)
    IN  IF splitId \notin 1..Len(db.bill_splits) THEN Fail("split not found")
        ELSE IF ~BillSplitValidate(split) THEN Fail("cancel error")
        ELSE IF split.payer_user_id # userId THEN Fail("not payer")
        ELSE IF isSettled(split) THEN Fail("already settled")
        ELSE IF ~upd.ok
             THEN Outcome(upd.db, Res("cancelBillSplit", in, FALSE, "cancel error", NoData),
                          upd.faulted)
        ELSE Outcome(upd.db, Res("cancelBillSplit", in, TRUE, "cancel ok", NoData), FALSE)

(***************************************************************************)
(* Budget aggregator: BudgetService.                                       *)
(***************************************************************************)
RECURSIVE SumPayments(_, _, _, _, _, _)
\* SELECT COALESCE(SUM(amount), 0) FROM transactions WHERE user_id = ? AND
\*   type = 'payment' AND status = 'ok' AND merchant_id IN (...) AND
\*   strftime('%Y-%m', created_at) = ?, over the rows i..
SumPayments(db, created, i, userId, merchantIds, month) ==
    IF i > Len(db.transactions) THEN 0
    ELSE (IF /\ db.transactions[i].user_id = userId
             /\ db.transactions[i].type = "payment"
             /\ db.transactions[i].status = "ok"
             /\ db.transactions[i].merchant_id \in merchantIds
             /\ created[i] = month
          THEN db.transactions[i].amount ELSE 0)
         + SumPayments(db, created, i + 1, userId, merchantIds, month)

\* the month of a payment is not looked at
calculateCategorySpendingAnyMonth(db, created, userId, month, category, failed) ==
    SumPayments(db, [i \in 1..Len(created) |-> month], 1, userId,
                {m \in DOMAIN Merchants : Merchants[m] = category}, month)

\* failed: one of the two queries was rejected, which the method answers with 0
calculateCategorySpending(db, created, userId, month, category, failed) ==
    LET merchantIds == {m \in DOMAIN Merchants : Merchants[m] = category}
    IN  IF failed \/ merchantIds = {} THEN 0
        ELSE SumPayments(db, created, 1, userId, merchantIds, month)

\* percentage = (spent / limit) * 100, limit > 0
getBudgetStatus(spent, limit) ==
    IF spent * 100 >= 95 * limit THEN "danger"
    ELSE IF spent * 100 >= 80 * limit THEN "warning"
    ELSE "good"

\* the categories setBudget accepts, in the order ORDER BY category gives them
\* ("diger", "eglence", "saglik", "ulasim" for the Turkish spellings)
CategoryOrder == <<"cafe", "diger", "eglence", "market", "saglik", "ulasim">>

ValidCategories == {CategoryOrder[i] : i \in 1..Len(CategoryOrder)}

BudgetOf(db, userId, month, category) ==
    CHOOSE b \in db.budgets : b.user_id = userId /\ b.month = month /\ b.category = category

HasBudget(db, userId, month, category) ==
    \E b \in db.budgets : b.user_id = userId /\ b.month = month /\ b.category = category

\* SELECT * FROM budgets WHERE user_id = ? AND month = ? ORDER BY category
BudgetRows(db, userId, month) ==
    LET cats == SelectSeq(CategoryOrder, LAMBDA c : HasBudget(db, userId, month, c))
    IN  [i \in 1..Len(cats) |-> BudgetOf(db, userId, month, cats[i])]

\* statement 1 is the budgets query, statement 1 + i the spending of budget i;
\* the percentage string of the answer is left out
getUserBudgets(db, created, userId, month, fault) ==
    LET in == [userId |-> userId, month |-> month]
        rows == BudgetRows(db, userId, month)
        budgetsWithRealData ==
            [i \in 1..Len(rows) |->
                LET realSpent == calculateCategorySpending(db, created, userId, month,
                                                           rows[i].category, fault.at = 1 + i)
                IN  [category |-> rows[i].category,
                     limitAmount |-> rows[i].limit_amount,
                     spentAmount |-> realSpent,
                     remaining |-> rows[i].limit_amount - realSpent,
                     status |-> getBudgetStatus(realSpent, rows[i].limit_amount)]]
    IN  IF fault.at = 1
        THEN Outcome(db, Res("getUserBudgets", in, FALSE, "budgets error", NoData), TRUE)
        ELSE Outcome(db, Res("getUserBudgets", in, TRUE, "",
                             [month |-> month, budgets |-> budgetsWithRealData]),
                     fault.at \in 2..1 + Len(rows))

RECURSIVE SumSpent(_)
SumSpent(seq) == IF seq = << >> THEN 0 ELSE Head(seq).spentAmount + SumSpent(Tail(seq))

\* currentMonth: the month of new Date(); after the statements of
\* getUserBudgets come the wallet read and the query of the month's payments
getBudgetSummary(db, created, userId, currentMonth, fault) ==
    LET in == [userId |-> userId, month |-> currentMonth]
        n == 1 + Len(BudgetRows(db, userId, currentMonth))
        r == getUserBudgets(db, created, userId, currentMonth, fault)
        budgetList == r.res.data.budgets
        totalBudget == IF userId \in DOMAIN db.wallets THEN db.wallets[userId] ELSE 0
        totalSpent == SumSpent(budgetList)
    IN  IF ~r.res.success
        THEN Outcome(db, Res("getBudgetSummary", in, FALSE, r.res.message, NoData), r.faulted)
        ELSE IF fault.at \in {n + 1, n + 2}
        THEN Outcome(db, Res("getBudgetSummary", in, FALSE, "summary error", NoData), TRUE)
        ELSE Outcome(db, Res("getBudgetSummary", in, TRUE, "",
                             [month |-> currentMonth,
                              totalBudget |-> totalBudget,
                              totalSpent |-> totalSpent,
                              totalRemaining |-> totalBudget - totalSpent,
                              totalMonthSpending |->
                                  SumPayments(db, created, 1, userId,
                                              DOMAIN Merchants \cup {NoMerchant},
                                              currentMonth),
                              budgets |-> budgetList]),
                     r.faulted)

\* statement 1 is the SELECT of the existing budget, statement 2 the write
setBudget(db, userId, month, category, limitAmount, fault) ==
    LET in == [userId |-> userId, month |-> month, category |-> category,
               limitAmount |-> limitAmount]
        Fail(msg) == Outcome(db, Res("setBudget", in, FALSE, msg, NoData), FALSE)
        budget == Budget(userId, month, category, limitAmount)
        w == DatabaseRun(db, IF HasBudget(db, userId, month, category)
                             THEN UpdateBudgetRow(budget) ELSE InsertBudgetRow(budget),
                         2, fault)
    IN  IF userId = "" \/ category = "" THEN Fail("fields required")
        ELSE IF limitAmount <= 0 THEN Fail("invalid limit")
        ELSE IF category \notin ValidCategories THEN Fail("invalid category")
        ELSE IF fault.at = 1
             THEN Outcome(db, Res("setBudget", in, FALSE, "budget error", NoData), TRUE)
        ELSE IF ~w.ok
             THEN Outcome(w.db, Res("setBudget", in, FALSE, "budget error", NoData), w.faulted)
        ELSE Outcome(w.db, Res("setBudget", in, TRUE,
                               IF HasBudget(db, userId, month, category)
                               THEN "budget updated" ELSE "budget created", NoData), FALSE)

deleteBudget(db, userId, month, category, fault) ==
    LET in == [userId |-> userId, month |-> month, category |-> category]
        w == DatabaseRun(db, DeleteBudgetRow(Budget(userId, month, category, 0)), 1, fault)
    IN  IF ~w.ok
        THEN Outcome(w.db, Res("deleteBudget", in, FALSE, "budget error", NoData), w.faulted)
        ELSE Outcome(w.db, Res("deleteBudget", in, TRUE, "budget deleted", NoData), FALSE)

(***************************************************************************)
(* State machine.                                                          *)
(***************************************************************************)
InitResult == Res("init", NoData, TRUE, "", NoData)

\* the handlers that can be suspended at the same time
Handlers == {"h1", "h2"}

\* a handler with no request
Idle == [pc |-> "idle", op |-> "", in |-> NoData, split |-> NoData, tx |-> 0]

NoRequests == [h \in Handlers |-> Idle]

Init ==
    /\ wallets = SeedWallets
    /\ transactions = SeedTransactions
    /\ bill_splits = << >>
    /\ cashback_rules = SeedCashbackRules
    /\ budgets = SeedBudgets
    /\ created_at = SeedCreatedAt
    /\ clock = SeedClock
    /\ faults = 0
    /\ calls = 0
    /\ result = InitResult
    /\ halted = FALSE
    /\ inflight = NoRequests
    /\ services = {}
    /\ initialized = FALSE
    /\ phase = "new"
    /\ mounted = << >>

\* a call returns: the store it leaves and the value it returns.  A call
\* that left the store untouched ends the explored run, since every
\* continuation of it is a continuation of the run without that call.
Return(out, fault) ==
    /\ ~halted
    /\ fault = NoFault \/ out.faulted
    /\ out.db = DB \/ calls < MaxCalls
    /\ wallets' = out.db.wallets
    /\ transactions' = out.db.transactions
    /\ bill_splits' = out.db.bill_splits
    /\ budgets' = out.db.budgets
    /\ created_at' = created_at \o [i \in 1..Len(out.db.transactions) - Len(transactions) |->
                                      clock]
    /\ faults' = IF out.faulted THEN faults + 1 ELSE faults
    /\ calls' = IF out.db = DB THEN calls ELSE calls + 1
    /\ result' = out.res
    /\ halted' = (out.db = DB)
    /\ UNCHANGED <<cashback_rules, clock, inflight, wiring>>

TransferMoney(From, To, A) ==
    \E fromUserId \in From, toUserId \in To, amount \in A :
        \E fault \in FaultsFor(4, TRUE) :
            Return(transferMoney(DB, fromUserId, toUserId, amount, fault), fault)

ProcessPayment(U, M, A) ==
    \E userId \in U, merchantId \in M, amount \in A :
        \E fault \in FaultsFor(2, TRUE) :
            Return(processPayment(DB, userId, merchantId, amount, fault), fault)

TopUpWallet(U, A) ==
    \E userId \in U, amount \in A :
        \E fault \in FaultsFor(2, TRUE) :
            Return(topUpWallet(DB, userId, amount, fault), fault)

ProcessQRPayment(U, Q, D) ==
    \E userId \in U, qrData \in Q, now \in D :
        \E fault \in FaultsFor(2, TRUE) :
            Return(processQRPayment(DB, userId, qrData, now, fault), fault)

\* the payment a cashback request names: the newest payment row of the store
PaymentRows == {i \in 1..Len(transactions) : transactions[i].type = "payment"}

PaymentTxInputs ==
    {transactions[CHOOSE i \in PaymentRows : \A j \in PaymentRows : j <= i].tx_id}

CalculateAndApplyCashback(U, M, A, D) ==
    \E userId \in U, merchantId \in M, amount \in A, paymentTxId \in PaymentTxInputs,
       now \in D :
        \E fault \in FaultsFor(2 * Cardinality(cashback_rules), FALSE) :
            Return(calculateAndApplyCashback(DB, cashback_rules, userId, merchantId, amount,
                                             paymentTxId, now, fault), fault)

CreateEqualSplit(U, T, L) ==
    \E payerUserId \in U, originalTxId \in T, debtorUserIds \in L :
        \E fault \in FaultsFor(Len(debtorUserIds), TRUE) :
            Return(createEqualSplit(DB, payerUserId, originalTxId, debtorUserIds, fault), fault)

CreateWeightedSplit(U, T, L) ==
    \E payerUserId \in U, originalTxId \in T, debtorWeights \in L :
        \E fault \in FaultsFor(Len(debtorWeights), TRUE) :
            Return(createWeightedSplit(DB, payerUserId, originalTxId, debtorWeights, fault),
                   fault)

SplitIdInputs == 1..(Len(bill_splits) + 1)

SettleBillSplit(U) ==
    \E splitId \in SplitIdInputs, payingUserId \in U :
        \E fault \in FaultsFor(5, TRUE) :
            Return(settleBillSplit(DB, splitId, payingUserId, fault), fault)

CancelBillSplit(U) ==
    \E splitId \in SplitIdInputs, userId \in U :
        \E fault \in FaultsFor(1, FALSE) :
            Return(cancelBillSplit(DB, splitId, userId, fault), fault)

(***************************************************************************)
(* Spec: the three engines together, on a narrow choice of requests.       *)
(***************************************************************************)
CampaignDay == 20251015

GoodQr == Qr(TRUE, "QR-M1-001", "M1", Num(5000), 1)

\* U2 (90.00) is the one who pays, so that a debit soon exceeds the balance
Next ==
    \/ TransferMoney({"U2"}, {"U1"}, {5000})
    \/ ProcessPayment({"U2"}, {"M1"}, {5000})
    \/ TopUpWallet({"U2"}, {5000})
    \/ ProcessQRPayment({"U2"}, {GoodQr}, {CampaignDay})
    \/ CalculateAndApplyCashback({"U1"}, {"M1"}, {2000}, {CampaignDay})
    \/ CreateEqualSplit({"U1"}, {SeedSplitTxId}, {<<"U2">>})
    \/ CreateWeightedSplit({"U1"}, {SeedSplitTxId}, {<<W("U2", 1)>>})
    \/ SettleBillSplit({"U2"})
    \/ CancelBillSplit({"U1"})

Spec == Init /\ [][Next]_vars

(***************************************************************************)
(* SpecMoney: the Money-Movement engine on every class of request.         *)
(***************************************************************************)
MoneyUserIds == {"U1", "U2", "U9"}

NextMoney ==
    \/ TransferMoney(MoneyUserIds, MoneyUserIds, Amounts)
    \/ ProcessPayment(MoneyUserIds, {"M1", "M9"}, Amounts)
    \/ TopUpWallet({"U2", "U9"}, {0, 5000})
    \/ ProcessQRPayment({"U2"}, QrPayloads, {CampaignDay})

SpecMoney == Init /\ [][NextMoney]_vars

(***************************************************************************)
(* SpecSplit: the Bill-Split engine on every class of request.             *)
(***************************************************************************)
NextSplit ==
    \/ CreateEqualSplit(MoneyUserIds, {SeedSplitTxId, MissingTxId}, EqualDebtorLists)
    \/ CreateWeightedSplit(MoneyUserIds, {SeedSplitTxId, MissingTxId}, WeightedDebtorLists)
    \/ SettleBillSplit(UserIds)
    \/ CancelBillSplit(UserIds)

SpecSplit == Init /\ [][NextSplit]_vars

(***************************************************************************)
(* SpecCashback: payments and the Cashback engine.                         *)
(***************************************************************************)
NextCashback ==
    \/ ProcessPayment({"U1"}, {"M1"}, {5000})
    \/ ProcessQRPayment({"U1"}, {GoodQr}, {CampaignDay})
    \/ CalculateAndApplyCashback(MoneyUserIds, MerchantInputs, {2000},
                                 {CampaignDay, 20251115})

SpecCashback == Init /\ [][NextCashback]_vars

(***************************************************************************)
(* SpecShares: payments of several sizes and the splits made of them.      *)
(***************************************************************************)
\* the transaction a split request names: TX_PAY_003 or the newest payment
SplitTxInputs == PaymentTxInputs \cup {SeedSplitTxId}

NextShares ==
    \/ ProcessPayment({"U1"}, {"M1"}, {1, 10000})
    \/ CreateEqualSplit({"U1"}, SplitTxInputs, {<<"U2", "U3">>, <<"U1", "U3">>})
    \/ CreateWeightedSplit({"U1"}, SplitTxInputs,
                           {<<W("U2", 2), W("U3", 1)>>, <<W("U1", 5), W("U3", 2)>>})

SpecShares == Init /\ [][NextShares]_vars

(***************************************************************************)
(* SpecRules: the Cashback engine over rule tables of every shape the      *)
(* cashback_rules schema admits (inactive rows, NULL dates, NULL cap).     *)
(***************************************************************************)
ExtraCashbackRules == {
    [rowid |-> 3, rule_id |-> "CB3", rule_type |-> "percent", category |-> "any", rate |-> 100,
     flat_amount |-> 0, cap |-> 0, first_time_only |-> FALSE,
     starts_at |-> NoDate, ends_at |-> NoDate, active |-> FALSE],
    [rowid |-> 4, rule_id |-> "CB4", rule_type |-> "flat", category |-> "market", rate |-> 0,
     flat_amount |-> 500, cap |-> 0, first_time_only |-> TRUE,
     starts_at |-> NoDate, ends_at |-> NoDate, active |-> TRUE],
    [rowid |-> 5, rule_id |-> "CB5", rule_type |-> "percent", category |-> "market",
     rate |-> 1000, flat_amount |-> 0, cap |-> 0, first_time_only |-> FALSE,
     starts_at |-> 20251101, ends_at |-> NoDate, active |-> TRUE] }

RuleTables == {SeedCashbackRules, SeedCashbackRules \cup ExtraCashbackRules}

InitRules ==
    /\ wallets = SeedWallets
    /\ transactions = SeedTransactions
    /\ bill_splits = << >>
    /\ cashback_rules \in RuleTables
    /\ budgets = SeedBudgets
    /\ created_at = SeedCreatedAt
    /\ clock = SeedClock
    /\ faults = 0
    /\ calls = 0
    /\ result = InitResult
    /\ halted = FALSE
    /\ inflight = NoRequests
    /\ services = {}
    /\ initialized = FALSE
    /\ phase = "new"
    /\ mounted = << >>

\* before the campaigns and after CB2 has ended
RuleDays == {20250915, 20251115}

\* 0.05 earns less than half a kurus at 5%
SmallAmounts == {5, 2000}

\* 5% of 500.00 is more than the cap of CB1
LargeAmount == 50000

NextRules ==
    \/ ProcessPayment({"U1"}, {"M1"}, {2000})
    \/ CalculateAndApplyCashback({"U1"}, {"M1"}, SmallAmounts, {CampaignDay})
    \/ CalculateAndApplyCashback({"U1"}, {"M1"}, {LargeAmount}, {20251115})
    \/ CalculateAndApplyCashback({"U1"}, {"M2"}, {LargeAmount}, RuleDays)

SpecRules == InitRules /\ [][NextRules]_vars

(***************************************************************************)
(* SpecBudget: market payments, the passing of a month and the Budget      *)
(* aggregator.                                                             *)
(***************************************************************************)
GetUserBudgets(U, Mo) ==
    \E userId \in U, month \in Mo :
        \E fault \in FaultsFor(1 + Len(BudgetRows(DB, userId, month)), FALSE) :
            Return(getUserBudgets(DB, created_at, userId, month, fault), fault)

GetBudgetSummary(U) ==
    \E userId \in U :
        \E fault \in FaultsFor(3 + Len(BudgetRows(DB, userId, clock)), FALSE) :
            Return(getBudgetSummary(DB, created_at, userId, clock, fault), fault)

SetBudget(U, Mo, C, L) ==
    \E userId \in U, month \in Mo, category \in C, limitAmount \in L :
        \E fault \in FaultsFor(2, FALSE) :
            Return(setBudget(DB, userId, month, category, limitAmount, fault), fault)

DeleteBudget(U, Mo, C) ==
    \E userId \in U, month \in Mo, category \in C :
        \E fault \in FaultsFor(1, FALSE) :
            Return(deleteBudget(DB, userId, month, category, fault), fault)

NextMonth == 202511

\* the calendar month ends
AdvanceClock ==
    /\ ~halted
    /\ clock = SeedClock
    /\ clock' = NextMonth
    /\ result' = Res("clock", NoData, TRUE, "", NoData)
    /\ UNCHANGED <<wallets, transactions, bill_splits, cashback_rules, budgets, created_at,
                   faults, calls, halted, inflight, wiring>>

\* 6.00 more at the market brings U1's October market spending to 38.00
MarketPayment == 600

\* 32.00 is 80% and 38.00 is 95% of 40.00; 32.00 is less than 80% of 41.00
BudgetLimits == {0, 4000, 4100}

NextBudget ==
    \/ ProcessPayment({"U1"}, {"M2"}, {MarketPayment})
    \/ AdvanceClock
    \/ GetUserBudgets({"U1", "U2", "U9"}, {202509, SeedClock, NextMonth})
    \/ GetBudgetSummary({"U1", "U9"})
    \/ SetBudget({"U1", "U9"}, {202509, SeedClock}, {"market", "kira"}, BudgetLimits)
    \/ DeleteBudget({"U1"}, {SeedClock}, {"cafe"})

SpecBudget == Init /\ [][NextBudget]_vars

(***************************************************************************)
(* SpecConcurrent: two handlers between their await points.  A handler is  *)
(* suspended at each await; the store serves one read, one bundle or one   *)
(* statement at a time, and a bundle as one indivisible unit.              *)
(***************************************************************************)
\* a step of handler h: the store it leaves and where the handler is next
Step(h, db, next) ==
    /\ ~halted
    /\ wallets' = db.wallets
    /\ transactions' = db.transactions
    /\ bill_splits' = db.bill_splits
    /\ budgets' = db.budgets
    /\ created_at' = created_at \o [i \in 1..Len(db.transactions) - Len(transactions) |->
                                      clock]
    /\ inflight' = [inflight EXCEPT ![h] = next]
    /\ UNCHANGED <<cashback_rules, clock, faults, halted, wiring>>

\* the handler is suspended at its next await
Suspend(h, db, next) == Step(h, db, next) /\ UNCHANGED result

\* the handler returns
Finish(h, db, res) == Step(h, db, Idle) /\ result' = res

\* a request arrives at a free handler
Accepts(h) ==
    /\ inflight[h] = Idle
    /\ calls < MaxCalls
    /\ calls' = calls + 1

Awaiting(h, op, pc) == inflight[h].op = op /\ inflight[h].pc = pc

\* PaymentService.transferMoney up to the await of its bundle: the checks on
\* the wallets as they are read
BeginTransfer(From, To, A) ==
    \E h \in Handlers, fromUserId \in From, toUserId \in To, amount \in A :
        LET out == transferMoney(DB, fromUserId, toUserId, amount, NoFault)
        IN  /\ Accepts(h)
            /\ IF out.res.success
               THEN Suspend(h, DB, [Idle EXCEPT !.pc = "bundle", !.op = "transferMoney",
                                                !.in = out.res.in])
               ELSE Finish(h, DB, out.res)

\* the bundle of PaymentService.transferMoney on the store as it is now
transferOperations(db, fromUserId, toUserId, amount) ==
    LET outTxId == FreshId(db, 1)
        inTxId == FreshId(db, 2)
    IN  << DebitWallet(fromUserId, amount),
           CreditWallet(toUserId, amount),
           InsertTransaction(Row(outTxId, fromUserId, NoMerchant, amount, "transfer_out",
                                 TransferMeta(toUserId, inTxId))),
           InsertTransaction(Row(inTxId, toUserId, NoMerchant, amount, "transfer_in",
                                 TransferMeta(fromUserId, outTxId))) >>

\* PaymentService.transferMoney from its bundle to its return
CommitTransfer ==
    \E h \in Handlers :
        LET in == inflight[h].in
            t == DatabaseTransaction(DB, transferOperations(DB, in.fromUserId, in.toUserId,
                                                            in.amount), NoFault)
        IN  /\ Awaiting(h, "transferMoney", "bundle")
            /\ calls' = calls
            /\ Finish(h, t.db,
                      IF t.ok
                      THEN Res("transferMoney", in, TRUE, "transfer ok",
                               [outTransactionId |-> FreshId(DB, 1),
                                inTransactionId |-> FreshId(DB, 2), amount |-> in.amount])
                      ELSE Res("transferMoney", in, FALSE, "transfer error", NoData))

\* PaymentService.processPayment up to the await of its bundle
BeginPayment(U, M, A) ==
    \E h \in Handlers, userId \in U, merchantId \in M, amount \in A :
        LET out == processPayment(DB, userId, merchantId, amount, NoFault)
        IN  /\ Accepts(h)
            /\ IF out.res.success
               THEN Suspend(h, DB, [Idle EXCEPT !.pc = "bundle", !.op = "processPayment",
                                                !.in = out.res.in, !.tx = DB.wallets[userId]])
               ELSE Finish(h, DB, out.res)

\* the bundle of PaymentService.processPayment on the store as it is now
paymentOperations(db, userId, merchantId, amount) ==
    << DebitWallet(userId, amount),
       InsertTransaction(Row(FreshId(db, 1), userId, merchantId, amount, "payment", NoMeta)) >>

\* PaymentService.processPayment from its bundle to its return; newBalance is
\* computed from the balance read before the bundle
CommitPayment ==
    \E h \in Handlers :
        LET in == inflight[h].in
            t == DatabaseTransaction(DB, paymentOperations(DB, in.userId, in.merchantId,
                                                           in.amount), NoFault)
        IN  /\ Awaiting(h, "processPayment", "bundle")
            /\ calls' = calls
            /\ Finish(h, t.db,
                      IF t.ok
                      THEN Res("processPayment", in, TRUE, "payment ok",
                               [transactionId |-> FreshId(DB, 1), amount |-> in.amount,
                                merchantId |-> in.merchantId,
                                newBalance |-> inflight[h].tx - in.amount])
                      ELSE Res("processPayment", in, FALSE, "payment error", NoData))

\* settleBillSplit up to the await of the funds check: the split as it is read
SettleReadsSplit(U) ==
    \E h \in Handlers, splitId \in SplitIdInputs, payingUserId \in U :
        LET in == [splitId |-> splitId, userId |-> payingUserId]
            Fail(msg) == Finish(h, DB, Res("settleBillSplit", in, FALSE, msg, NoData))
            split == bill_splits[splitId]
        IN  /\ Accepts(h)
            /\ IF splitId \notin 1..Len(bill_splits) THEN Fail("split not found")
               ELSE IF ~BillSplitValidate(split) THEN Fail("settle error")
               ELSE IF split.debtor_user_id # payingUserId THEN Fail("not debtor")
               ELSE IF isSettled(split) THEN Fail("already settled")
               ELSE Suspend(h, DB, [Idle EXCEPT !.pc = "funds", !.op = "settleBillSplit",
                                                !.in = in, !.split = split])

\* settleBillSplit from the funds check to the await of the transfer
SettleChecksFunds ==
    \E h \in Handlers :
        LET in == inflight[h].in
            split == inflight[h].split
        IN  /\ Awaiting(h, "settleBillSplit", "funds")
            /\ calls' = calls
            /\ IF repoHasSufficientFunds(DB, in.userId, split.share_amount)
               THEN Suspend(h, DB, [inflight[h] EXCEPT !.pc = "transfer"])
               ELSE Finish(h, DB, Res("settleBillSplit", in, FALSE, "insufficient funds",
                                      NoData))

\* settleBillSplit from the transfer bundle to the await of the status update
SettleTransfers ==
    \E h \in Handlers :
        LET in == inflight[h].in
            split == inflight[h].split
            transferResult == splitTransferMoney(DB, split.debtor_user_id,
                                                 split.payer_user_id, split.share_amount,
                                                 NoFault)
        IN  /\ Awaiting(h, "settleBillSplit", "transfer")
            /\ calls' = calls
            /\ IF transferResult.ok
               THEN Suspend(h, transferResult.db,
                            [inflight[h] EXCEPT !.pc = "status",
                                                !.tx = transferResult.outTransactionId])
               ELSE Finish(h, transferResult.db,
                           Res("settleBillSplit", in, FALSE, "settle error", NoData))

\* settleBillSplit from the status update to its return
SettleMarks ==
    \E h \in Handlers :
        LET in == inflight[h].in
            split == inflight[h].split
            upd == DatabaseRun(DB, UpdateSplitStatus(in.splitId, "settled", TRUE),
                               SettleStatusStmt, NoFault)
        IN  /\ Awaiting(h, "settleBillSplit", "status")
            /\ calls' = calls
            /\ Finish(h, upd.db,
                      IF upd.ok
                      THEN Res("settleBillSplit", in, TRUE, "settle ok",
                               [splitId |-> in.splitId, amount |-> split.share_amount,
                                payerUserId |-> split.payer_user_id,
                                debtorUserId |-> split.debtor_user_id,
                                transferTransactionId |-> inflight[h].tx])
                      ELSE Res("settleBillSplit", in, FALSE, "settle error", NoData))

\* 50.00 twice is more than the 90.00 of U2
ConcurrentAmount == 5000

NextConcurrent ==
    \/ CreateEqualSplit({"U1"}, {SeedSplitTxId}, {<<"U2">>})
    \/ BeginTransfer({"U2"}, {"U1"}, {ConcurrentAmount})
    \/ CommitTransfer
    \/ BeginPayment({"U2"}, {"M1"}, {ConcurrentAmount})
    \/ CommitPayment
    \/ SettleReadsSplit({"U2"})
    \/ SettleChecksFunds
    \/ SettleTransfers
    \/ SettleMarks

SpecConcurrent == Init /\ [][NextConcurrent]_vars

(***************************************************************************)
(* SpecStartup: the dependency container and the application object, on    *)
(* every order of calls of their methods.                                  *)
(***************************************************************************)
\* the names Container.init registers
Registered ==
    {"database",
     "userRepository", "walletRepository", "transactionRepository", "billSplitRepository",
     "authService", "paymentService", "billSplitService", "budgetService",
     "authController", "paymentController", "billSplitController", "budgetController"}

Route(path, controller) == [path |-> path, controller |-> controller]

\* the routers App.setupRoutes mounts, in order, each with the name it asks
\* the container for
Routes == << Route("/api/auth", "authController"),
             Route("/api/payments", "paymentController"),
             Route("/api/splits", "billSplitController"),
             Route("/api/budgets", "budgetController"),
             Route("/api/cashback", "cashbackController") >>

\* the names a caller may ask the container for
ServiceNames == Registered \cup {"cashbackService", "cashbackController"}

\* Container.init: [services, initialized] after the call, and whether it threw
ContainerInit(svc, inited, connects) ==
    IF inited THEN [services |-> svc, initialized |-> TRUE, threw |-> FALSE]
    ELSE IF ~connects THEN [services |-> svc, initialized |-> FALSE, threw |-> TRUE]
    ELSE [services |-> svc \cup Registered, initialized |-> TRUE, threw |-> FALSE]

\* Container.get does not throw
ContainerGet(svc, inited, serviceName) == inited /\ serviceName \in svc

\* Container.has
ContainerHas(svc, serviceName) == serviceName \in svc

\* Container.close: a failure of database.close() is swallowed and leaves the
\* container as it was
ContainerClose(svc, inited, closes) ==
    IF "database" \in svc /\ ~closes
    THEN [services |-> svc, initialized |-> inited]
    ELSE [services |-> {}, initialized |-> FALSE]

RECURSIVE MountRoutes(_, _, _)
\* App.setupRoutes from the i-th router on: the paths mounted before the first
\* Container.get that throws
MountRoutes(svc, inited, i) ==
    IF i > Len(Routes) \/ ~ContainerGet(svc, inited, Routes[i].controller)
    THEN << >>
    ELSE <<Routes[i].path>> \o MountRoutes(svc, inited, i + 1)

\* a step of the container or of the application: the store is not touched
Wired(res) ==
    /\ phase # "exited"
    /\ result' = res
    /\ UNCHANGED <<wallets, transactions, bill_splits, cashback_rules, budgets, created_at,
                   clock, faults, calls, halted, inflight>>

\* App.start up to the return of container.init(): a failure ends the process
AppStart ==
    \E connects \in BOOLEAN :
        LET c == ContainerInit(services, initialized, connects)
        IN  /\ phase = "new"
            /\ services' = c.services
            /\ initialized' = c.initialized
            /\ phase' = IF c.threw THEN "exited" ELSE "container"
            /\ UNCHANGED mounted
            /\ Wired(Res("App.init", NoData, ~c.threw, "", NoData))

\* App.start from setupMiddleware on: the routes are mounted and the server
\* listens, or a Container.get throws and the process exits
AppSetup ==
    LET paths == MountRoutes(services, initialized, 1)
    IN  /\ phase = "container"
        /\ mounted' = <<"/api/health">> \o paths
        /\ phase' = IF Len(paths) = Len(Routes) THEN "listening" ELSE "exited"
        /\ UNCHANGED <<services, initialized>>
        /\ Wired(Res("App.start", NoData, Len(paths) = Len(Routes), "", NoData))

\* App.shutdown
AppShutdown ==
    /\ phase' = "exited"
    /\ services' = {}
    /\ initialized' = FALSE
    /\ UNCHANGED mounted
    /\ Wired(Res("App.shutdown", NoData, TRUE, "", NoData))

ContainerInitCall ==
    \E connects \in BOOLEAN :
        LET c == ContainerInit(services, initialized, connects)
        IN  /\ services' = c.services
            /\ initialized' = c.initialized
            /\ UNCHANGED <<phase, mounted>>
            /\ Wired(Res("Container.init", NoData, ~c.threw, "", NoData))

ContainerGetCall(N) ==
    \E serviceName \in N :
        /\ UNCHANGED wiring
        /\ Wired(Res("Container.get", [serviceName |-> serviceName],
                     ContainerGet(services, initialized, serviceName),
                     IF ~initialized THEN "not initialized"
                     ELSE IF serviceName \notin services THEN "not found" ELSE "",
                     NoData))

ContainerHasCall(N) ==
    \E serviceName \in N :
        /\ UNCHANGED wiring
        /\ Wired(Res("Container.has", [serviceName |-> serviceName],
                     ContainerHas(services, serviceName), "", NoData))

ContainerCloseCall ==
    \E closes \in BOOLEAN :
        LET c == ContainerClose(services, initialized, closes)
        IN  /\ services' = c.services
            /\ initialized' = c.initialized
            /\ UNCHANGED <<phase, mounted>>
            /\ Wired(Res("Container.close", NoData, TRUE, "", NoData))

NextStartup ==
    \/ AppStart
    \/ AppSetup
    \/ AppShutdown
    \/ ContainerInitCall
    \/ ContainerGetCall(ServiceNames)
    \/ ContainerHasCall(ServiceNames)
    \/ ContainerCloseCall

SpecStartup == Init /\ [][NextStartup]_vars

(***************************************************************************)
(* Properties.  An action property reads the store before the call in the  *)
(* unprimed variables and the returned value in result'.                   *)
(***************************************************************************)
NewRows == SeedLen + 1..Len(transactions)

NonNegative == \A u \in DOMAIN wallets : wallets[u] >= 0

\* the call asks to debit a wallet of more than it holds
Overdraws(r) ==
    CASE r.op = "transferMoney" ->
           /\ r.in.fromUserId \in DOMAIN wallets
           /\ r.in.amount > wallets[r.in.fromUserId]
      [] r.op = "processPayment" ->
           /\ r.in.userId \in DOMAIN wallets
           /\ r.in.amount > wallets[r.in.userId]
      [] r.op = "processQRPayment" ->
           /\ r.in.userId \in DOMAIN wallets
           /\ r.in.qrData.amount.k \in {"number", "string"}
           /\ r.in.qrData.amount.v > wallets[r.in.userId]
      [] r.op = "settleBillSplit" ->
           /\ r.in.splitId \in 1..Len(bill_splits)
           /\ r.in.userId \in DOMAIN wallets
           /\ bill_splits[r.in.splitId].debtor_user_id = r.in.userId
           /\ bill_splits[r.in.splitId].share_amount > wallets[r.in.userId]
      [] OTHER -> FALSE

NoMoneyChange == wallets' = wallets /\ transactions' = transactions

\* C1: Non-negativity.  From the non-negative seed balances, no call of any
\* of the engines leaves a wallet balance below 0, and a call that asks to
\* debit a wallet of more than it holds returns failure, changes no wallet
\* and adds no transaction.
C1_NonNegativity ==
    [][ /\ NonNegative'
        /\ Overdraws(result') => ~result'.success /\ NoMoneyChange ]_vars

\* a payment was refused for lack of funds after earlier calls changed the store
C1_Witness ==
    /\ result.op = "processPayment"
    /\ result.message = "insufficient funds"
    /\ calls >= 1
    /\ result.in.amount > wallets[result.in.userId]
    /\ NonNegative

Balances(w) == w["U1"] + w["U2"] + w["U3"]

\* the two wallets of a transfer keep their sum, the others their balance
Conserved(from, to) ==
    /\ wallets'[from] + wallets'[to] = wallets[from] + wallets[to]
    /\ \A u \in DOMAIN wallets \ {from, to} : wallets'[u] = wallets[u]
    /\ Balances(wallets') = Balances(wallets)

\* C2: Conservation.  Every transferMoney that succeeds, and every settlement
\* whose transfer took effect (whether or not the settlement then reported
\* success), leaves sender.balance + receiver.balance as it was and every
\* other wallet unchanged, so the sum of all balances is unchanged.
C2_Conservation ==
    [][ /\ (result'.op = "transferMoney" /\ result'.success)
             => Conserved(result'.in.fromUserId, result'.in.toUserId)
        /\ (result'.op = "settleBillSplit" /\ (result'.success \/ wallets' # wallets))
             => Conserved(bill_splits[result'.in.splitId].debtor_user_id,
                          bill_splits[result'.in.splitId].payer_user_id) ]_vars

\* a settlement succeeded in a run that also made a direct transfer
C2_Witness ==
    /\ result.op = "settleBillSplit"
    /\ result.success
    /\ \E i \in NewRows : transactions[i].type = "transfer_out"
    /\ \E i \in NewRows : transactions[i].type = "bill_split"

BundleOps == {"transferMoney", "processPayment", "processQRPayment", "topUpWallet"}

\* C3: Atomicity.  When a statement of a transfer, payment or top-up bundle
\* fails, at any position and at COMMIT too, the call reports failure and no
\* balance change and no transaction record of the bundle is left in the store.
C3_Atomicity ==
    [][ (result'.op \in BundleOps /\ faults' > faults)
          => ~result'.success /\ NoMoneyChange ]_vars

RECURSIVE SumOf(_, _, _)
\* the sum of the amounts of the rows i.. of user u whose type is in types
SumOf(i, u, types) ==
    IF i > Len(transactions) THEN 0
    ELSE (IF transactions[i].user_id = u /\ transactions[i].type \in types
          THEN transactions[i].amount ELSE 0) + SumOf(i + 1, u, types)

CreditTypes == {"topup", "cashback", "transfer_in"}

DebitTypes == {"payment", "transfer_out", "bill_split"}

\* C4: Ledger pairing.  In every reachable state, runs with a failing
\* storage statement included, each wallet's balance is its initial balance
\* plus the credit records created for its owner minus the debit records
\* created for its owner.
C4_LedgerPairing ==
    \A u \in Users :
        wallets[u] = SeedWallets[u] + SumOf(SeedLen + 1, u, CreditTypes)
                                    - SumOf(SeedLen + 1, u, DebitTypes)

\* C5: BillSplit state machine.  A split's status only ever changes from
\* pending to settled or from pending to cancelled; a settled or cancelled
\* split keeps its status.
C5_SplitStateMachine ==
    [][ \A i \in 1..Len(bill_splits) :
            bill_splits'[i].status # bill_splits[i].status
              => /\ bill_splits[i].status = "pending"
                 /\ bill_splits'[i].status \in {"settled", "cancelled"} ]_vars

\* a precondition of settleBillSplit fails for the request
SettlePreconditionFails(in) ==
    \/ in.splitId \notin 1..Len(bill_splits)
    \/ /\ in.splitId \in 1..Len(bill_splits)
       /\ \/ bill_splits[in.splitId].debtor_user_id # in.userId
          \/ bill_splits[in.splitId].status # "pending"
          \/ in.userId \notin DOMAIN wallets
          \/ wallets[in.userId] < bill_splits[in.splitId].share_amount

\* C6: settleBillSplit preconditions.  A call returns failure, changes no
\* wallet, adds no transaction and leaves the split's status as it was when
\* the split does not exist, the caller is not its debtor, its status is not
\* pending (settled or cancelled) or the debtor's balance is below the share.
C6_SettlePreconditions ==
    [][ (result'.op = "settleBillSplit" /\ SettlePreconditionFails(result'.in))
          => ~result'.success /\ NoMoneyChange /\ bill_splits' = bill_splits ]_vars

\* C7: Idempotent settlement.  A settleBillSplit call for a split whose
\* status is settled returns failure, changes no wallet, adds no transaction
\* and leaves the split settled.
C7_IdempotentSettlement ==
    [][ ( /\ result'.op = "settleBillSplit"
          /\ result'.in.splitId \in 1..Len(bill_splits)
          /\ bill_splits[result'.in.splitId].status = "settled" )
          => /\ ~result'.success
             /\ NoMoneyChange
             /\ bill_splits'[result'.in.splitId].status = "settled" ]_vars

\* the debtor asked again to settle the split they had settled
C7_Witness ==
    /\ result.op = "settleBillSplit"
    /\ ~result.success
    /\ result.in.splitId \in 1..Len(bill_splits)
    /\ bill_splits[result.in.splitId].status = "settled"
    /\ bill_splits[result.in.splitId].debtor_user_id = result.in.userId
    /\ \E i \in NewRows : transactions[i].type = "bill_split"

\* the cashback rows of user u for the rule
Awards(u, rule_id) ==
    {i \in 1..Len(transactions) :
        /\ transactions[i].user_id = u
        /\ transactions[i].type = "cashback"
        /\ transactions[i].meta.rule_id = rule_id}

\* the rules that owe a cashback for the payment txId of amount made by u at
\* a merchant of the category on the day now
RulesDue(u, category, amount, txId, now) ==
    {r \in cashback_rules :
        /\ RuleInForce(r, category, now)
        /\ r.first_time_only =>
              \A i \in Awards(u, r.rule_id) : transactions[i].meta.original_tx_id = txId
        /\ calculateCashbackAmount(r, amount) > 0}

\* C8: after a successful processQRPayment every applicable cashback rule
\* has yielded, without a further call, a cashback record of the paying user
\* for that payment.
C8_QrPaymentChainsCashback ==
    (result.op = "processQRPayment" /\ result.success)
      => \A r \in RulesDue(result.in.userId, Merchants[result.data.merchantId],
                           result.data.amount, result.data.transactionId, result.in.now) :
            \E i \in Awards(result.in.userId, r.rule_id) :
                transactions[i].meta.original_tx_id = result.data.transactionId

AtMostOnce ==
    \A u \in Users : \A r \in cashback_rules :
        r.first_time_only => Cardinality(Awards(u, r.rule_id)) <= 1

\* the request meets no storage fault and names a user who never had the
\* first-time-only rule r, in force for the merchant on that day
FirstAwardDue(res, r) ==
    /\ res.op = "calculateAndApplyCashback"
    /\ faults' = faults
    /\ res.in.userId \in Users
    /\ res.in.merchantId \in DOMAIN Merchants
    /\ r.first_time_only
    /\ RuleInForce(r, Merchants[res.in.merchantId], res.in.now)
    /\ calculateCashbackAmount(r, res.in.amount) > 0
    /\ Awards(res.in.userId, r.rule_id) = {}

\* C9: Cashback first-time gating.  Over any sequence of payments and
\* calculateAndApplyCashback calls a first_time_only rule is referenced by at
\* most one cashback record of a user, and a user who never had the rule is
\* awarded it whatever awards the other users hold.
C9_FirstTimeGating ==
    [][ /\ AtMostOnce'
        /\ \A r \in cashback_rules :
              FirstAwardDue(result', r)
                => Cardinality({i \in 1..Len(transactions') :
                       /\ transactions'[i].user_id = result'.in.userId
                       /\ transactions'[i].type = "cashback"
                       /\ transactions'[i].meta.rule_id = r.rule_id}) = 1 ]_vars

\* the same cashback request replayed for U1 on a campaign day: the first
\* call awarded CB2, which U2 and U3 already held, the replay did not
C9_Witness ==
    /\ result.op = "calculateAndApplyCashback"
    /\ result.success
    /\ result.in.userId = "U1"
    /\ result.in.now = CampaignDay
    /\ \A k \in 1..Len(result.data.appliedRules) : result.data.appliedRules[k].ruleId # "CB2"
    /\ \E i \in NewRows : i \in Awards("U1", "CB2")
    /\ Awards("U2", "CB2") # {} /\ Awards("U3", "CB2") # {}

\* C10: Transfer effect.  A successful transferMoney(from, to, amount) takes
\* exactly amount from from's balance, adds exactly amount to to's balance
\* and appends exactly two records of that amount with status ok, a
\* transfer_out of from and a transfer_in of to, each holding the other's id
\* in related_tx.
C10_TransferEffect ==
    [][ (result'.op = "transferMoney" /\ result'.success)
          => LET from == result'.in.fromUserId
                 to == result'.in.toUserId
                 amount == result'.in.amount
                 n == Len(transactions)
             IN  /\ wallets'[from] = wallets[from] - amount
                 /\ wallets'[to] = wallets[to] + amount
                 /\ Len(transactions') = n + 2
                 /\ SubSeq(transactions', 1, n) = transactions
                 /\ transactions'[n + 1].type = "transfer_out"
                 /\ transactions'[n + 1].user_id = from
                 /\ transactions'[n + 2].type = "transfer_in"
                 /\ transactions'[n + 2].user_id = to
                 /\ \A k \in {n + 1, n + 2} :
                       /\ transactions'[k].amount = amount
                       /\ transactions'[k].status = "ok"
                 /\ transactions'[n + 1].meta.related_tx = transactions'[n + 2].tx_id
                 /\ transactions'[n + 2].meta.related_tx = transactions'[n + 1].tx_id
                 /\ transactions'[n + 1].tx_id # transactions'[n + 2].tx_id ]_vars

\* U1 (250.00) has sent 50.00 to U2 (90.00): 200.00 and 140.00
C10_Witness ==
    /\ result.op = "transferMoney"
    /\ result.success
    /\ result.in = [fromUserId |-> "U1", toUserId |-> "U2", amount |-> 5000]
    /\ wallets["U1"] = 20000
    /\ wallets["U2"] = 14000
    /\ Len(transactions) = SeedLen + 2

\* a precondition of transferMoney fails for the request
TransferPreconditionFails(in) ==
    \/ in.fromUserId = in.toUserId
    \/ in.amount <= 0
    \/ in.fromUserId \notin DOMAIN wallets
    \/ in.toUserId \notin DOMAIN wallets
    \/ wallets[in.fromUserId] < in.amount

\* the only failing precondition is the sender's balance
OnlyFundsMissing(in) ==
    /\ in.fromUserId # in.toUserId
    /\ in.amount > 0
    /\ in.fromUserId \in DOMAIN wallets
    /\ in.toUserId \in DOMAIN wallets
    /\ wallets[in.fromUserId] < in.amount

\* C11: Transfer failure.  transferMoney returns success = false and leaves
\* every wallet balance and the transactions unchanged when from = to, the
\* amount is not positive, either user has no wallet or from's balance is
\* below the amount; insufficient funds comes back as that result, with its
\* own message, and not through the error path of a storage failure.
C11_TransferFailure ==
    [][ (result'.op = "transferMoney" /\ TransferPreconditionFails(result'.in))
          => /\ ~result'.success
             /\ NoMoneyChange
             /\ bill_splits' = bill_splits
             /\ faults' = faults
             /\ OnlyFundsMissing(result'.in) => result'.message = "insufficient funds" ]_vars

\* a transfer was refused for lack of funds after an earlier call took money
\* out of the sender's wallet
C11_Witness ==
    /\ result.op = "transferMoney"
    /\ ~result.success
    /\ result.message = "insufficient funds"
    /\ calls >= 1
    /\ wallets[result.in.fromUserId] < SeedWallets[result.in.fromUserId]
    /\ wallets[result.in.fromUserId] < result.in.amount

\* the preconditions of processPayment named for the request
PaymentPreconditions(in) ==
    /\ in.amount > 0
    /\ in.userId \in DOMAIN wallets
    /\ wallets[in.userId] >= in.amount

\* the effect of a payment: the wallet debited of exactly the amount, no other
\* wallet touched, exactly one payment record appended (so no cashback
\* record and no credit), newBalance computed from the balance before
PaymentEffect(res) ==
    /\ res.success
    /\ wallets' = [wallets EXCEPT ![res.in.userId] = @ - res.in.amount]
    /\ Len(transactions') = Len(transactions) + 1
    /\ SubSeq(transactions', 1, Len(transactions)) = transactions
    /\ LET tx == transactions'[Len(transactions')]
       IN  /\ tx.type = "payment"
           /\ tx.status = "ok"
           /\ tx.user_id = res.in.userId
           /\ tx.merchant_id = res.in.merchantId
           /\ tx.amount = res.in.amount
           /\ tx.tx_id = res.data.transactionId
    /\ res.data.newBalance = wallets[res.in.userId] - res.in.amount
    /\ bill_splits' = bill_splits

\* C12 as stated: processPayment has its effect whenever the amount is
\* positive and the wallet holds at least the amount, whatever the merchant
\* id, and otherwise returns failure and changes nothing (calls that meet a
\* storage fault aside).
C12_PaymentEffectAnyMerchant ==
    [][ (result'.op = "processPayment" /\ faults' = faults)
          => IF PaymentPreconditions(result'.in)
             THEN PaymentEffect(result')
             ELSE ~result'.success /\ NoMoneyChange /\ bill_splits' = bill_splits ]_vars

\* C12: processPayment effect.  When the merchant exists, the amount is
\* positive and the user's wallet holds at least the amount, processPayment
\* debits that wallet of exactly the amount, appends exactly one payment
\* record (status ok, tagged with the merchant id), creates no cashback
\* record, changes no other wallet and returns newBalance = balance before
\* minus amount; otherwise, an unknown merchant id included, it returns
\* failure and changes nothing (calls that meet a storage fault aside).
C12_PaymentEffect ==
    [][ (result'.op = "processPayment" /\ faults' = faults)
          => IF /\ PaymentPreconditions(result'.in)
                /\ result'.in.merchantId \in DOMAIN Merchants
             THEN PaymentEffect(result')
             ELSE ~result'.success /\ NoMoneyChange /\ bill_splits' = bill_splits ]_vars

\* a second payment of the run succeeded and reports the balance it left
C12_Witness ==
    /\ result.op = "processPayment"
    /\ result.success
    /\ calls >= 2
    /\ result.data.newBalance = wallets[result.in.userId]
    /\ transactions[Len(transactions)].type = "payment"
    /\ \A i \in NewRows : transactions[i].type # "cashback"

\* C13: Settlement effect.  A successful settleBillSplit(splitId, debtor)
\* moves exactly the split's shareAmount from the debtor's wallet to the
\* payer's wallet, appends exactly one bill_split record of the debtor and
\* one transfer_in record of the payer, both of shareAmount with status ok,
\* and leaves the split settled with its settlement timestamp set.
C13_SettlementEffect ==
    [][ (result'.op = "settleBillSplit" /\ result'.success)
          => LET id == result'.in.splitId
                 split == bill_splits[id]
                 debtor == split.debtor_user_id
                 payer == split.payer_user_id
                 share == split.share_amount
                 n == Len(transactions)
             IN  /\ debtor = result'.in.userId
                 /\ wallets' = [wallets EXCEPT ![debtor] = @ - share, ![payer] = @ + share]
                 /\ Len(transactions') = n + 2
                 /\ SubSeq(transactions', 1, n) = transactions
                 /\ transactions'[n + 1].type = "bill_split"
                 /\ transactions'[n + 1].user_id = debtor
                 /\ transactions'[n + 2].type = "transfer_in"
                 /\ transactions'[n + 2].user_id = payer
                 /\ \A k \in {n + 1, n + 2} :
                       /\ transactions'[k].amount = share
                       /\ transactions'[k].status = "ok"
                 /\ bill_splits' = [bill_splits EXCEPT ![id].status = "settled",
                                                       ![id].settled = TRUE] ]_vars

\* TX_PAY_003 (45.75) split equally with the debtors U2 and U3: each owes
\* round(45.75 / 3, 2) = 15.25; U2 has settled: U2 90.00 - 15.25, U1 250.00 + 15.25
C13_Witness ==
    /\ result.op = "settleBillSplit"
    /\ result.success
    /\ result.in.userId = "U2"
    /\ result.data.amount = 1525
    /\ wallets = [U1 |-> 26525, U2 |-> 7475, U3 |-> 3000]
    /\ bill_splits[result.in.splitId].status = "settled"
    /\ bill_splits[result.in.splitId].settled
    /\ Len(bill_splits) = 2

\* the preconditions of cancelBillSplit hold for the request
CancelPreconditions(in) ==
    /\ in.splitId \in 1..Len(bill_splits)
    /\ bill_splits[in.splitId].payer_user_id = in.userId
    /\ bill_splits[in.splitId].status = "pending"

\* C14: cancelBillSplit succeeds only when the split exists, the caller is
\* its payer and its status is pending; on success the status becomes
\* cancelled and no wallet balance or transaction record changes; in every
\* other case it returns failure and changes nothing.
C14_CancelEffect ==
    [][ result'.op = "cancelBillSplit"
          => IF CancelPreconditions(result'.in) /\ faults' = faults
             THEN /\ result'.success
                  /\ bill_splits' = [bill_splits EXCEPT ![result'.in.splitId].status = "cancelled"]
                  /\ NoMoneyChange
             ELSE /\ ~result'.success
                  /\ bill_splits' = bill_splits
                  /\ NoMoneyChange ]_vars

\* num/den rounded to the nearest whole kurus, halves up
Rounded(num, den) ==
    CHOOSE q \in {num \div den, num \div den + 1} :
        2 * q * den <= 2 * num + den /\ 2 * num + den < 2 * (q + 1) * den

\* the debtors of the request that are not the payer
Debtors(in) == SelectSeq(in.debtors, LAMBDA id : id # in.payerUserId)

\* the request names a transaction of the payer and, the payer removed, at
\* least one debtor, all of them existing users
EqualSplitDue(in) ==
    /\ Debtors(in) # << >>
    /\ \E i \in 1..Len(transactions) :
          /\ transactions[i].tx_id = in.originalTxId
          /\ transactions[i].user_id = in.payerUserId
    /\ \A i \in 1..Len(Debtors(in)) : Debtors(in)[i] \in Users

OriginalAmount(in) ==
    transactions[CHOOSE i \in 1..Len(transactions) :
                    transactions[i].tx_id = in.originalTxId].amount

EqualShare(in) == Rounded(OriginalAmount(in), Len(Debtors(in)) + 1)

\* one pending row per listed debtor, in the order listed, none for the payer
EqualSplitEffect(res) ==
    LET in == res.in
        n == Len(bill_splits)
    IN  /\ res.success
        /\ Len(bill_splits') = n + Len(Debtors(in))
        /\ SubSeq(bill_splits', 1, n) = bill_splits
        /\ \A i \in 1..Len(Debtors(in)) :
              /\ bill_splits'[n + i].debtor_user_id = Debtors(in)[i]
              /\ bill_splits'[n + i].debtor_user_id # in.payerUserId
              /\ bill_splits'[n + i].payer_user_id = in.payerUserId
              /\ bill_splits'[n + i].tx_id = in.originalTxId
              /\ bill_splits'[n + i].share_amount = EqualShare(in)
              /\ bill_splits'[n + i].share_amount > 0
              /\ bill_splits'[n + i].weight = 1
              /\ bill_splits'[n + i].total_amount = OriginalAmount(in)
              /\ bill_splits'[n + i].status = "pending"
        /\ NoMoneyChange

\* C15 as stated: whenever the transaction is the payer's and N >= 1 existing
\* debtors remain, createEqualSplit creates the N rows, each with
\* shareAmount = round(A / (N+1), 2) > 0 (calls that meet a storage fault aside).
C15_EqualSplitAnyAmount ==
    [][ (result'.op = "createEqualSplit" /\ faults' = faults /\ EqualSplitDue(result'.in))
          => EqualSplitEffect(result') ]_vars

\* C15: Equal split.  For a transaction of amount A owned by the payer and a
\* debtor list that, the payer removed, holds N >= 1 existing users, with
\* round(A / (N+1), 2) > 0, createEqualSplit creates exactly one row per
\* listed debtor and none for the payer, each with shareAmount =
\* round(A / (N+1), 2), weight 1, totalAmount A and status pending; when the
\* rounded share is 0 the call fails and creates no row.
C15_EqualSplit ==
    [][ (result'.op = "createEqualSplit" /\ faults' = faults /\ EqualSplitDue(result'.in))
          => IF EqualShare(result'.in) > 0
             THEN EqualSplitEffect(result')
             ELSE ~result'.success /\ bill_splits' = bill_splits /\ NoMoneyChange ]_vars

\* U1 paid 100.00 and split it equally with U2 and U3: two rows of 33.33
C15_Witness ==
    /\ result.op = "createEqualSplit"
    /\ result.success
    /\ result.in.debtors = <<"U2", "U3">>
    /\ Len(bill_splits) >= 2
    /\ \A k \in {Len(bill_splits) - 1, Len(bill_splits)} :
          /\ bill_splits[k].total_amount = 10000
          /\ bill_splits[k].share_amount = 3333
          /\ bill_splits[k].status = "pending"
    /\ bill_splits[Len(bill_splits) - 1].debtor_user_id = "U2"
    /\ bill_splits[Len(bill_splits)].debtor_user_id = "U3"

\* the weighted debtors of the request that are not the payer
WeightedDebtors(in) == SelectSeq(in.debtors, LAMBDA item : item.userId # in.payerUserId)

RECURSIVE WeightUpTo(_, _)
WeightUpTo(seq, n) == IF n = 0 THEN 0 ELSE seq[n].weight + WeightUpTo(seq, n - 1)

WeightedShare(in, i) ==
    Rounded(OriginalAmount(in) * WeightedDebtors(in)[i].weight,
            WeightUpTo(WeightedDebtors(in), Len(WeightedDebtors(in))))

RECURSIVE SharesUpTo(_, _, _)
SharesUpTo(splits, from, n) ==
    IF n = 0 THEN 0 ELSE splits[from + n].share_amount + SharesUpTo(splits, from, n - 1)

\* the request names a transaction of the payer and, the payer removed, at
\* least one debtor, all existing users with positive weights
WeightedSplitDue(in) ==
    /\ WeightedDebtors(in) # << >>
    /\ \E i \in 1..Len(transactions) :
          /\ transactions[i].tx_id = in.originalTxId
          /\ transactions[i].user_id = in.payerUserId
    /\ \A i \in 1..Len(WeightedDebtors(in)) :
          /\ WeightedDebtors(in)[i].userId \in Users
          /\ WeightedDebtors(in)[i].weight > 0

Distance(a, b) == IF a >= b THEN a - b ELSE b - a

\* C16: Weighted split.  Every row createWeightedSplit creates for debtor i of
\* the N debtors carries shareAmount = round(A * w_i / sum(w), 2) and weight
\* w_i, the N shares sum to A within N kurus, and a request that meets the
\* preconditions and whose rounded shares are all positive succeeds with
\* exactly those N rows (calls that meet a storage fault aside).
C16_WeightedSplit ==
    [][ result'.op = "createWeightedSplit" =>
          LET in == result'.in
              n == Len(bill_splits)
              added == Len(bill_splits') - n
          IN  /\ added \in {0, Len(WeightedDebtors(in))}
              /\ \A i \in 1..added :
                    /\ bill_splits'[n + i].debtor_user_id = WeightedDebtors(in)[i].userId
                    /\ bill_splits'[n + i].weight = WeightedDebtors(in)[i].weight
                    /\ bill_splits'[n + i].total_amount = OriginalAmount(in)
                    /\ bill_splits'[n + i].share_amount = WeightedShare(in, i)
              /\ added > 0 =>
                    Distance(SharesUpTo(bill_splits', n, added), OriginalAmount(in)) <= added
              /\ result'.success => added > 0
              /\ ( /\ faults' = faults
                   /\ WeightedSplitDue(in)
                   /\ \A i \in 1..Len(WeightedDebtors(in)) : WeightedShare(in, i) > 0 )
                 => result'.success ]_vars

\* U1 paid 100.00 and split it 2 : 1 between U2 and U3: 66.67 and 33.33
C16_Witness ==
    /\ result.op = "createWeightedSplit"
    /\ result.success
    /\ result.in.debtors = <<W("U2", 2), W("U3", 1)>>
    /\ Len(bill_splits) >= 2
    /\ bill_splits[Len(bill_splits) - 1].total_amount = 10000
    /\ bill_splits[Len(bill_splits) - 1].share_amount = 6667
    /\ bill_splits[Len(bill_splits)].share_amount = 3333

\* a precondition of split creation fails for the request
SplitPreconditionFails(in, weights) ==
    LET ids == IF weights THEN [i \in 1..Len(in.debtors) |-> in.debtors[i].userId]
               ELSE in.debtors
        listed == SelectSeq(in.debtors,
                            LAMBDA d : (IF weights THEN d.userId ELSE d) # in.payerUserId)
    IN  \/ ~\E i \in 1..Len(transactions) : transactions[i].tx_id = in.originalTxId
        \/ \E i \in 1..Len(transactions) :
              /\ transactions[i].tx_id = in.originalTxId
              /\ transactions[i].user_id # in.payerUserId
        \/ listed = << >>
        \/ \E i \in 1..Len(ids) : ids[i] # in.payerUserId /\ ids[i] \notin Users
        \/ weights /\ \E i \in 1..Len(listed) : listed[i].weight <= 0

RulesNamed(in) ==
    {r \in cashback_rules :
        /\ r.active
        /\ r.category \in {Merchants[in.merchantId], "any"}
        /\ r.starts_at # NoDate => r.starts_at <= in.now
        /\ r.ends_at # NoDate => r.ends_at >= in.now
        /\ r.first_time_only => Awards(in.userId, r.rule_id) = {}}

\* the rules a call applied: those it reports and those it wrote a row for
RulesReported(res) ==
    {res.data.appliedRules[i].ruleId : i \in 1..Len(res.data.appliedRules)}

\* the rows a call appended to the ledger
RowsAdded == Len(transactions) + 1..Len(transactions')

RulesWritten == {transactions'[i].meta.rule_id : i \in RowsAdded}

\* C18 as stated: the rules calculateAndApplyCashback applies are exactly the
\* rules that are active, of the category or "any", in their window on the
\* day, and not yet awarded when first_time_only (calls that meet a storage
\* fault aside).
C18_ApplicabilityAnyAmount ==
    [][ ( /\ result'.op = "calculateAndApplyCashback"
          /\ faults' = faults
          /\ result'.in.merchantId \in DOMAIN Merchants )
          => LET named == {r.rule_id : r \in RulesNamed(result'.in)}
             IN  RulesReported(result') = named /\ RulesWritten = named ]_vars

\* C18: Cashback applicability.  For a payment by user u at a merchant of
\* category c on day d, the rules calculateAndApplyCashback applies are
\* exactly the rules that are active, whose category is c or "any", whose
\* start date (if set) is <= d and end date (if set) is >= d, which are not
\* first_time_only or have no earlier cashback Transaction of u with their
\* rule id, and whose amount for the payment, rounded to the kurus, is positive.
C18_Applicability ==
    [][ ( /\ result'.op = "calculateAndApplyCashback"
          /\ faults' = faults
          /\ result'.in.merchantId \in DOMAIN Merchants )
          => LET named == {r.rule_id : r \in {q \in RulesNamed(result'.in) :
                              calculateCashbackAmount(q, result'.in.amount) > 0}}
             IN  RulesReported(result') = named /\ RulesWritten = named ]_vars

\* a market payment in November under the larger table: CB4 (no dates, first
\* time) and CB5 (started 1 November) apply; CB2 has ended, CB3 is inactive
C18_Witness ==
    /\ result.op = "calculateAndApplyCashback"
    /\ result.in.merchantId = "M2"
    /\ result.in.now = 20251115
    /\ RulesReported(result) = {"CB4", "CB5"}
    /\ \E r \in cashback_rules : r.rule_id = "CB3"

\* the rule of the table with the given id
RuleOf(rule_id) == CHOOSE r \in cashback_rules : r.rule_id = rule_id

\* what the claim says a rule credits for a payment of the amount: the
\* percentage, or the cap when one is set and the percentage exceeds it,
\* rounded to the kurus; the flat amount for a flat rule
AmountDue(rule, amount) ==
    IF rule.rule_type = "flat" THEN rule.flat_amount
    ELSE IF rule.cap # 0 /\ amount * rule.rate > rule.cap * RateScale THEN rule.cap
    ELSE Rounded(amount * rule.rate, RateScale)

RECURSIVE AmountsUpTo(_, _, _)
\* the sum of the amounts of the n rows after row from
AmountsUpTo(rows, from, n) ==
    IF n = 0 THEN 0 ELSE rows[from + n].amount + AmountsUpTo(rows, from, n - 1)

\* C19: Cashback amount.  Every cashback row calculateAndApplyCashback writes
\* and every amount it reports for an applied rule is, for a percent rule,
\* amount * rate, or the cap when one is set and amount * rate exceeds it,
\* rounded to the kurus, and for a flat rule the flat_amount whatever the
\* payment amount; a call that meets no storage fault credits the wallet by
\* the sum of those amounts.
C19_CashbackAmount ==
    [][ result'.op = "calculateAndApplyCashback" =>
          LET in == result'.in
              reported == result'.data.appliedRules
          IN  /\ \A i \in RowsAdded :
                    /\ transactions'[i].type = "cashback"
                    /\ transactions'[i].amount =
                          AmountDue(RuleOf(transactions'[i].meta.rule_id), in.amount)
              /\ \A i \in 1..Len(reported) :
                    reported[i].amount = AmountDue(RuleOf(reported[i].ruleId), in.amount)
              /\ faults' = faults =>
                    wallets' = [u \in DOMAIN wallets |->
                                   IF u = in.userId
                                   THEN wallets[u] + AmountsUpTo(transactions', Len(transactions),
                                                                 Len(transactions') - Len(transactions))
                                   ELSE wallets[u]] ]_vars

\* U1 has paid 20.00 at the cafe M1 and the 5% rule CB1 alone answers that
\* payment: 1.00 is credited
C19_Witness ==
    /\ result.op = "calculateAndApplyCashback"
    /\ result.in.amount = 2000
    /\ result.data.appliedRules = <<[ruleId |-> "CB1", amount |-> 100]>>
    /\ Len(transactions) > SeedLen + 1
    /\ transactions[result.in.paymentTxId].amount = 2000
    /\ transactions[result.in.paymentTxId].tx_id > SeedLen
    /\ transactions[Len(transactions)].amount = 100
    /\ wallets["U1"] = 25000 - 2000 + 2100 + 100

\* the rules that apply to a cashback request: in force for the merchant's
\* category on the day, not yet awarded when first_time_only, and worth more
\* than nothing
RulesApplying(in) ==
    IF in.merchantId \in DOMAIN Merchants
    THEN {r \in RulesNamed(in) : AmountDue(r, in.amount) > 0}
    ELSE {}

ReadsPositive(a) == a.k \in {"number", "string"} /\ a.v > 0

\* a check of the QR payload fails: not JSON, a field missing, an amount that
\* is no positive number, or a timestamp more than 24 hours old
QrRejected(q) ==
    \/ ~q.parses
    \/ q.qr_id = ""
    \/ q.merchant_id = ""
    \/ q.amount.k = "absent"
    \/ ~ReadsPositive(q.amount)
    \/ q.age # NoTs /\ q.age > 24

C22_TopUp ==
    [][ result'.op = "topUpWallet" =>
          LET u == result'.in.userId
              a == result'.in.amount
          IN  IF a > 0 /\ u \in DOMAIN wallets
              THEN faults' = faults =>
                      /\ result'.success
                      /\ wallets' = [w \in DOMAIN wallets |->
                                        IF w = u THEN wallets[w] + a ELSE wallets[w]]
                      /\ Len(transactions') = Len(transactions) + 1
                      /\ SubSeq(transactions', 1, Len(transactions)) = transactions
                      /\ transactions'[Len(transactions')].type = "topup"
                      /\ transactions'[Len(transactions')].status = "ok"
                      /\ transactions'[Len(transactions')].user_id = u
                      /\ transactions'[Len(transactions')].amount = a
                      /\ result'.data.newBalance = wallets'[u]
              ELSE ~result'.success /\ NoMoneyChange /\ bill_splits' = bill_splits ]_vars

\* U2 has topped up 50.00: the wallet holds 50.00 more than all else explains
C22_Witness ==
    /\ result.op = "topUpWallet"
    /\ result.success
    /\ result.in = [userId |-> "U2", amount |-> 5000]
    /\ transactions[Len(transactions)].type = "topup"
    /\ transactions[Len(transactions)].amount = 5000
    /\ result.data.newBalance = wallets["U2"]
    /\ wallets["U1"] = SeedWallets["U1"]

RECURSIVE SpentUpTo(_, _, _, _)
\* the sum of the amounts of the first n transactions that are payments with
\* status ok of user u, made in the month at a merchant of the category
SpentUpTo(n, u, month, category) ==
    IF n = 0 THEN 0
    ELSE (IF /\ transactions[n].user_id = u
             /\ transactions[n].type = "payment"
             /\ transactions[n].status = "ok"
             /\ created_at[n] = month
             /\ transactions[n].merchant_id \in DOMAIN Merchants
             /\ Merchants[transactions[n].merchant_id] = category
          THEN transactions[n].amount ELSE 0)
         + SpentUpTo(n - 1, u, month, category)

\* the line of a budget report for the limit b
ReportsBudget(lines, b) ==
    LET spent == SpentUpTo(Len(transactions), b.user_id, b.month, b.category)
    IN  \E i \in 1..Len(lines) :
           /\ lines[i].category = b.category
           /\ lines[i].limitAmount = b.limit_amount
           /\ lines[i].spentAmount = spent
           /\ lines[i].remaining = b.limit_amount - spent
           /\ spent * 100 >= 95 * b.limit_amount => lines[i].status = "danger"
           /\ (spent * 100 >= 80 * b.limit_amount /\ spent * 100 < 95 * b.limit_amount)
                 => lines[i].status = "warning"
           /\ spent * 100 < 80 * b.limit_amount => lines[i].status = "good"

\* C23: Budget projection.  For each configured (user, month, category) limit
\* getUserBudgets reports one line with spent = the sum of the amounts of the
\* user's transactions of type payment and status ok in that month whose
\* merchant's category matches, remaining = limit - spent, and status danger
\* when spent/limit*100 >= 95, warning when it is >= 80 and < 95, good when it
\* is < 80 (calls that meet a storage fault aside).
C23_BudgetProjection ==
    [][ (result'.op = "getUserBudgets" /\ faults' = faults) =>
          LET in == result'.in
              limits == {b \in budgets : b.user_id = in.userId /\ b.month = in.month}
          IN  /\ result'.success
              /\ Len(result'.data.budgets) = Cardinality(limits)
              /\ \A b \in limits : ReportsBudget(result'.data.budgets, b) ]_vars

\* U1's October market limit was set to 40.00 and 6.00 more was spent at the
\* market: the report shows 38.00 spent, 2.00 remaining, status danger, next
\* to the cafe budget in good standing
C23_Witness ==
    /\ result.op = "getUserBudgets"
    /\ result.success
    /\ \E i, j \in 1..Len(result.data.budgets) :
          /\ result.data.budgets[i] = [category |-> "market", limitAmount |-> 4000,
                                       spentAmount |-> 3800, remaining |-> 200,
                                       status |-> "danger"]
          /\ result.data.budgets[j].category = "cafe"
          /\ result.data.budgets[j].spentAmount = 3125
          /\ result.data.budgets[j].status = "good"

BudgetOps == {"getUserBudgets", "getBudgetSummary", "setBudget", "deleteBudget"}

\* C24: the Budget aggregator never writes money state.  getUserBudgets,
\* getBudgetSummary, setBudget and deleteBudget leave every wallet balance,
\* every transaction record and every BillSplit row unchanged.
C24_BudgetWritesNoMoney ==
    [][ result'.op \in BudgetOps =>
          /\ wallets' = wallets
          /\ transactions' = transactions
          /\ created_at' = created_at
          /\ bill_splits' = bill_splits ]_vars

\* a budget has been created for U1's September market spending after a
\* payment: the budgets table differs from the seed, the wallet shows the
\* payment only
C24_Witness ==
    /\ result.op = "setBudget"
    /\ result.success
    /\ result.message = "budget created"
    /\ Budget("U1", 202509, "market", 4000) \in budgets
    /\ wallets["U1"] = SeedWallets["U1"] - MarketPayment
    /\ Len(transactions) = SeedLen + 1

\* the step has turned the status of the split it names into settled
BecameSettled(splitId) ==
    /\ splitId \in 1..Len(bill_splits)
    /\ bill_splits[splitId].status # "settled"
    /\ bill_splits'[splitId].status = "settled"

\* C25: Settlement is all-or-nothing.  In every step of settleBillSplit,
\* including one whose status update fails after the transfer bundle has
\* committed, the share has moved from debtor to payer if and only if the
\* split's status has become settled, and a call that returns failure has
\* moved no money.
C25_SettlementAllOrNothing ==
    [][ result'.op = "settleBillSplit" =>
          /\ (wallets' # wallets) <=> BecameSettled(result'.in.splitId)
          /\ ~result'.success => NoMoneyChange ]_vars

\* the wallet the bundle of a suspended handler debits
DebitedBy(h) ==
    CASE inflight[h].op = "transferMoney" -> inflight[h].in.fromUserId
      [] inflight[h].op = "processPayment" -> inflight[h].in.userId
      [] inflight[h].op = "settleBillSplit" -> inflight[h].split.debtor_user_id

\* handler h executes its bundle in this step
RunsBundle(h) ==
    /\ inflight[h].pc \in {"bundle", "transfer"}
    /\ inflight'[h].pc # inflight[h].pc

\* C26: Concurrent debits of one wallet.  With every atomic bundle executed
\* as one indivisible, serialized unit, a bundle of a transfer, a payment or
\* a split settlement whose handler was suspended between its
\* sufficient-funds read and the bundle never leaves the wallet it debits
\* below 0.
C26_ConcurrentDebitsNeverOverdraw ==
    [][\A h \in Handlers : RunsBundle(h) => wallets'[DebitedBy(h)] >= 0]_vars

\* the settlement records of a split: the bill_split rows from its debtor to
\* its payer over its share
SettlementRecords(split) ==
    {i \in NewRows : /\ transactions[i].type = "bill_split"
                     /\ transactions[i].user_id = split.debtor_user_id
                     /\ transactions[i].meta.peer = split.payer_user_id
                     /\ transactions[i].amount = split.share_amount}

\* C28: Concurrent settlements of one split.  However the steps of the
\* settleBillSplit requests for a pending split interleave (read split, check
\* funds, transfer bundle, status update), the share is moved from the debtor
\* to the payer at most once: the split has at most one pair of settlement
\* records.
C28_SettledAtMostOnce ==
    \A s \in 1..Len(bill_splits) : Cardinality(SettlementRecords(bill_splits[s])) <= 1

\* the bounds of a stored split
WithinBounds(split) ==
    /\ split.payer_user_id # split.debtor_user_id
    /\ 0 < split.share_amount
    /\ split.share_amount <= split.total_amount
    /\ split.weight > 0

\* the shares the request computes
SharesAsked(res) ==
    IF res.op = "createEqualSplit"
    THEN {EqualShare(res.in)}
    ELSE {WeightedShare(res.in, i) : i \in 1..Len(WeightedDebtors(res.in))}

\* the request gets as far as computing shares
SharesComputed(res) ==
    \/ res.op = "createEqualSplit" /\ EqualSplitDue(res.in)
    \/ res.op = "createWeightedSplit" /\ WeightedSplitDue(res.in)

\* C27: Bounds of stored splits.  Every bill_splits row ever stored has
\* payer # debtor, 0 < shareAmount <= totalAmount and weight > 0; and a
\* split request one of whose computed shares rounds to 0 or exceeds the
\* total returns failure and stores no row.
C27_StoredSplitBounds ==
    [][ /\ \A s \in 1..Len(bill_splits') : WithinBounds(bill_splits'[s])
        /\ ( /\ SharesComputed(result')
             /\ \E share \in SharesAsked(result') :
                   share <= 0 \/ share > OriginalAmount(result'.in) )
           => ~result'.success /\ bill_splits' = bill_splits ]_vars

\* rows are stored, and the equal split of a payment of 0.01 among three, whose
\* share rounds to 0, was refused
C27_Witness ==
    /\ result.op = "createEqualSplit"
    /\ ~result.success
    /\ result.in.debtors = <<"U2", "U3">>
    /\ \E i \in NewRows : /\ transactions[i].tx_id = result.in.originalTxId
                          /\ transactions[i].amount = 1
    /\ Len(bill_splits) > 0

RECURSIVE SharesOpen(_, _)
\* the sum of the shares of the pending and settled splits 1..n of a transaction
SharesOpen(txId, n) ==
    IF n = 0 THEN 0
    ELSE SharesOpen(txId, n - 1) +
         (IF bill_splits[n].tx_id = txId /\ bill_splits[n].status # "cancelled"
          THEN bill_splits[n].share_amount ELSE 0)

\* the pending and settled splits of a transaction
OpenSplits(txId) ==
    {s \in 1..Len(bill_splits) :
        bill_splits[s].tx_id = txId /\ bill_splits[s].status # "cancelled"}

\* C29: Splits of one transaction.  For every transaction, whatever split
\* requests were made on it, the shares of its pending and settled splits sum
\* to at most its amount plus 0.01 per row, and no two of those splits name
\* the same debtor.
C29_SplitsWithinTransaction ==
    \A i \in 1..Len(transactions) :
        LET txId == transactions[i].tx_id
        IN  /\ SharesOpen(txId, Len(bill_splits)) <=
                  transactions[i].amount + Cardinality(OpenSplits(txId))
            /\ \A s, t \in OpenSplits(txId) :
                  bill_splits[s].debtor_user_id = bill_splits[t].debtor_user_id => s = t

\* C30: Startup wiring.  Once Container.init() has completed, every name the
\* route setup asks the container for is registered, so that no Container.get
\* of the route setup throws.
C30_RoutesWired ==
    initialized => \A i \in 1..Len(Routes) : Routes[i].controller \in services

====
